---------------------------- MODULE Spec2Model ----------------------------
(***************************************************************************)
(* A model of the financial-reporting pipeline of Proyecto-google:         *)
(*   - normalizar_ticker                     (financial_api.py)            *)
(*   - buscar_video_reciente_en_canal / buscar_video_reciente_con_fallback *)
(*                                           (api_youtube.py)              *)
(*   - procesar_ticker / generate_markdown_report (financial_api.py)       *)
(*   - procesar_cliente / main               (financial_api.py)            *)
(*   - main, with the import of config.py    (api_youtube.py)              *)
(*   - run_script / log_run / main           (orchestrator.py)             *)
(* Each component has its own specification (SpecNorm, SpecYT, SpecTicker, *)
(* SpecFin, SpecVideo, SpecOrch); the variables of the other components    *)
(* stay at their initial                                                   *)
(* value.  Python strings are TLA+ strings, Python lists are sequences,    *)
(* Python's None is the value None below.                                  *)
(***************************************************************************)
EXTENDS Integers, Sequences, FiniteSets, TLC

VARIABLES
    \* --- normalizar_ticker (SpecNorm)
    npc,        \* "in" | "once" | "twice" | "lower"
    raw,        \* the raw ticker handed to normalizar_ticker
    norm1,      \* normalizar_ticker(raw)
    norm2,      \* normalizar_ticker(norm1)
    norm_lower, \* normalizar_ticker(raw.lower())
    \* --- buscar_video_reciente_con_fallback (SpecYT)
    ypc,        \* "loop" | "done" | "raised"
    consultas,  \* the ordered list of queries
    provider,   \* provider[i]: what the search for consultas[i] answers
    yidx,       \* position of the `for idx, consulta` loop (1-based)
    searches,   \* the queries searched so far, in order
    yresult,    \* the value returned: a URL or None
    ynotice,    \* whether the 'consulta alternativa' notice was printed
    \* --- the installed libraries
    requests_json_caught,  \* whether response.json() raises a subclass of
                           \* requests.exceptions.RequestException (requests
                           \* >= 2.27) or a plain ValueError (older)
    \* --- procesar_ticker (SpecTicker)
    tpc,        \* the statement procesar_ticker is at
    traw,       \* its `ticker` argument
    tnorm,      \* normalizar_ticker(ticker)
    bundle,     \* the facets fetched so far (local variables of the try block)
    requested,  \* the provider requests made, in order
    tfailed,    \* the facets whose provider answered with a failure
    traised,    \* where an exception was raised: a facet, "render" or None
    tresult,    \* the value returned: a report or None
    \* --- financial_api.main and procesar_cliente (SpecFin)
    fpc,        \* the statement main / procesar_cliente is at
    mode,       \* "all" | "single" | "demo": the arguments of main
    db,         \* the Client Directory: the users with their portfolios
    clientes,   \* main: the clients to process, in order
    cidx,       \* main: position of the `for idx, cliente` loop (1-based)
    tickers,    \* procesar_cliente: the list of unique tickers
    tidx,       \* procesar_cliente: position of the ticker loop (1-based)
    informes_generados,  \* procesar_cliente: the reports uploaded
    errores,    \* procesar_cliente: the tickers that failed
    all_stats,  \* main: the statistics returned by procesar_cliente
    events,     \* what the run did, in order: provider probes, calls of
                \* procesar_cliente / procesar_ticker, uploads, sleeps
    \* --- api_youtube.main (SpecVideo)
    vpc,        \* the statement api_youtube.main is at
    config,     \* the module-level values of config.py, once imported
    missing,    \* the required keys not found when config.py was imported
    vclientes,  \* main: the clients read from the directory; vclientes[i]
                \* is how the storage answers an upload for client i
    ultimo_intento,  \* main: whether an analysis has been attempted
    widx,       \* main: position of the loop over configuraciones_semana
    resultados, \* main: the weekly analyses obtained
    vevents,    \* the external calls of the run, in order
    \* --- orchestrator.main (SpecOrch)
    opc,        \* the statement orchestrator.main is at
    step_idx,   \* position of the `for step_name, script` loop (1-based)
    code,       \* main: the return code of the step that ran last
    log_file,   \* main: the path returned by log_run ("" when not written)
    overall_success,  \* main: no step has returned a non-zero code so far
    exit_status,      \* the exit status of the orchestrator, None while it runs
    ran         \* the scripts run so far, in order, with what became of them

normVars == <<npc, raw, norm1, norm2, norm_lower>>
ytVars == <<ypc, consultas, provider, yidx, searches, yresult, ynotice>>
tickerVars == <<tpc, traw, tnorm, bundle, requested, tfailed, traised, tresult>>
finVars == <<fpc, mode, db, clientes, cidx, tickers, tidx, informes_generados,
             errores, all_stats, events>>
videoVars == <<vpc, config, missing, vclientes, ultimo_intento, widx, resultados, vevents>>
orchVars == <<opc, step_idx, code, log_file, overall_success, exit_status, ran>>
vars == <<normVars, ytVars, requests_json_caught, tickerVars, finVars, videoVars,
          orchVars>>

\* what the actions of one component leave unchanged
notNorm == <<ytVars, requests_json_caught, tickerVars, finVars, videoVars, orchVars>>
notYT == <<normVars, requests_json_caught, tickerVars, finVars, videoVars, orchVars>>
notTicker == <<normVars, ytVars, requests_json_caught, finVars, videoVars, orchVars>>
notFin == <<normVars, ytVars, requests_json_caught, tickerVars, videoVars, orchVars>>
notVideo == <<normVars, requests_json_caught, tickerVars, finVars, orchVars>>
notOrch == <<normVars, ytVars, requests_json_caught, tickerVars, finVars, videoVars>>

(***************************************************************************)
(* Python values                                                           *)
(***************************************************************************)
\* Python's None.  No string the model builds equals it.
None == "<None>"

\* None where the other values are records (Optional[dict],
\* Optional[DataFrame], Optional[report])
NoneVal == [t |-> "none"]

\* Python truthiness of an Optional[str]: None and "" are falsy.
Falsy(v) == v = None \/ v = ""

(***************************************************************************)
(* A component that is not the one a specification runs stays idle         *)
(***************************************************************************)
NormIdle ==
    /\ npc = "idle"
    /\ raw = None
    /\ norm1 = None
    /\ norm2 = None
    /\ norm_lower = None

YTIdle ==
    /\ ypc = "idle"
    /\ consultas = <<>>
    /\ provider = <<>>
    /\ yidx = 0
    /\ searches = <<>>
    /\ yresult = None
    /\ ynotice = FALSE

TickerIdle ==
    /\ tpc = "idle"
    /\ traw = None
    /\ tnorm = None
    /\ bundle = <<>>
    /\ requested = <<>>
    /\ tfailed = {}
    /\ traised = None
    /\ tresult = NoneVal

FinIdle ==
    /\ fpc = "idle"
    /\ mode = "all"
    /\ db = <<>>
    /\ clientes = <<>>
    /\ cidx = 0
    /\ tickers = <<>>
    /\ tidx = 0
    /\ informes_generados = <<>>
    /\ errores = <<>>
    /\ all_stats = <<>>
    /\ events = <<>>

VideoIdle ==
    /\ vpc = "idle"
    /\ config = NoneVal
    /\ missing = {}
    /\ vclientes = <<>>
    /\ ultimo_intento = FALSE
    /\ widx = 0
    /\ resultados = <<>>
    /\ vevents = <<>>

OrchIdle ==
    /\ opc = "idle"
    /\ step_idx = 0
    /\ code = 0
    /\ log_file = ""
    /\ overall_success = TRUE
    /\ exit_status = None
    /\ ran = <<>>

(***************************************************************************)
(* str methods used by the code, on TLA+ strings                           *)
(***************************************************************************)
CharAt(s, i) == SubSeq(s, i, i)

Lowers == "abcdefghijklmnopqrstuvwxyz"
Uppers == "ABCDEFGHIJKLMNOPQRSTUVWXYZ"
Digits == "0123456789"

IndexIn(c, alphabet) ==
    IF \E i \in 1..Len(alphabet) : CharAt(alphabet, i) = c
    THEN CHOOSE i \in 1..Len(alphabet) : CharAt(alphabet, i) = c
    ELSE 0

\* the characters of a string
Chars(s) == { CharAt(s, i) : i \in 1..Len(s) }

\* The strings of the model are ASCII: TLC keeps one byte of each character
\* of a string of a state.  A character of the program's inputs outside
\* ASCII is written as an ASCII character that no other input contains (see
\* KelvinSign, Accented, VISION_SEMANAL_QUERY); the accented letters of the
\* fixed texts of the reports, which no function reads letter by letter, are
\* written without their accent.

\* U+212A KELVIN SIGN: an upper-case letter whose lower case is the ASCII
\* "k" ('\u212a'.lower() == 'k', '\u212a'.upper() == '\u212a'), written
\* "~".
KelvinSign == "~"

\* the case mappings, letter by letter
ToUpper == [c \in Chars(Lowers) |-> CharAt(Uppers, IndexIn(c, Lowers))]
ToLower ==
    [c \in Chars(Uppers) |-> CharAt(Lowers, IndexIn(c, Uppers))] @@ (KelvinSign :> "k")

UpperChar(c) == IF c \in DOMAIN ToUpper THEN ToUpper[c] ELSE c
LowerChar(c) == IF c \in DOMAIN ToLower THEN ToLower[c] ELSE c

RECURSIVE ConcatRange(_, _, _)
\* "".join(parts[lo..hi]), computed by halves
ConcatRange(parts, lo, hi) ==
    IF lo > hi THEN ""
    ELSE IF lo = hi THEN parts[lo]
    ELSE LET mid == (lo + hi) \div 2
         IN  ConcatRange(parts, lo, mid) \o ConcatRange(parts, mid + 1, hi)

\* kind = "upper" | "lower": str.upper() / str.lower() on the model's
\* alphabet, character by character
MapChars(s, kind) ==
    ConcatRange([i \in 1..Len(s) |->
                    IF kind = "upper" THEN UpperChar(CharAt(s, i))
                    ELSE LowerChar(CharAt(s, i))],
                1, Len(s))

StrUpper(s) == MapChars(s, "upper")
StrLower(s) == MapChars(s, "lower")

IsSpace(c) == c \in {" ", "\t", "\n"}

RECURSIVE LStrip(_)
LStrip(s) == IF s # "" /\ IsSpace(CharAt(s, 1)) THEN LStrip(SubSeq(s, 2, Len(s))) ELSE s

RECURSIVE RStrip(_)
RStrip(s) == IF s # "" /\ IsSpace(CharAt(s, Len(s))) THEN RStrip(SubSeq(s, 1, Len(s) - 1)) ELSE s

\* str.strip()
StrStrip(s) == RStrip(LStrip(s))

\* str.endswith(suffix)
EndsWith(s, suffix) ==
    /\ Len(s) >= Len(suffix)
    /\ SubSeq(s, Len(s) - Len(suffix) + 1, Len(s)) = suffix

\* str.startswith(prefix)
StartsWith(s, prefix) ==
    /\ Len(s) >= Len(prefix)
    /\ SubSeq(s, 1, Len(prefix)) = prefix

RECURSIVE StrReplace(_, _, _)
\* str.replace(old, new), old non-empty: every non-overlapping occurrence,
\* scanning from the left.
StrReplace(s, old, new) ==
    IF Len(s) < Len(old) THEN s
    ELSE IF StartsWith(s, old)
         THEN new \o StrReplace(SubSeq(s, Len(old) + 1, Len(s)), old, new)
         ELSE CharAt(s, 1) \o StrReplace(SubSeq(s, 2, Len(s)), old, new)

\* `sub in s` for strings
Contains(s, sub) ==
    \E i \in 1..(Len(s) - Len(sub) + 1) : SubSeq(s, i, i + Len(sub) - 1) = sub

(***************************************************************************)
(* limpiar_texto_busqueda                                                  *)
(***************************************************************************)
\* unicodedata.normalize("NFKD", .) on the model's alphabet: an accented
\* letter decomposes into its base letter followed by a combining mark
\* (U+0301 acute, U+0303 tilde), the Kelvin sign into "K"; every other
\* character is unchanged.  The accented letters A E I O U a e i o u N n
\* (acute, acute, ..., tilde, tilde) are written, in this order, as the
\* characters of Accented ("_" and "$" stand for letters that no input of the
\* model holds).
Accented == "!&_+;[]^'{}$"
BaseOf   == "AEIOUaeiouNn"

\* the base letter of each accented letter
Decomposed ==
    [c \in Chars(Accented) |-> CharAt(BaseOf, IndexIn(c, Accented))] @@ (KelvinSign :> "K")

AlnumChars == Chars(Lowers) \cup Chars(Uppers) \cup Chars(Digits)

\* ch.isalnum() on the model's alphabet
IsAlnum(c) == c \in AlnumChars

\* the generator `ch for ch in normalizado if ch.isalnum() or ch.isspace()
\* or ch in ".-"`, applied to the NFKD decomposition of one character: the
\* base letter is kept, the combining mark (not alphanumeric) is dropped.
KeepChar(c) == IsAlnum(c) \/ IsSpace(c) \/ c \in {".", "-"}

NfkdFiltered(s) ==
    ConcatRange([i \in 1..Len(s) |->
                    LET c == CharAt(s, i)
                    IN  IF c \in DOMAIN Decomposed THEN Decomposed[c]
                        ELSE IF KeepChar(c) THEN c ELSE ""],
                1, Len(s))

\* str.split() of word \o s: the maximal runs of non-whitespace characters,
\* in order.  A run begins at a character that is no whitespace and follows
\* a whitespace or nothing, and ends before the next whitespace.
SplitWords(s, word) ==
    LET t       == word \o s
        NonSpace(i) == ~IsSpace(CharAt(t, i))
        starts  == { i \in 1..Len(t) : NonSpace(i) /\ (i = 1 \/ ~NonSpace(i - 1)) }
        Start(k) == CHOOSE i \in starts : Cardinality({ j \in starts : j < i }) = k - 1
        End(i)  == CHOOSE j \in i..Len(t) :
                       /\ \A m \in i..j : NonSpace(m)
                       /\ j = Len(t) \/ ~NonSpace(j + 1)
    IN  [k \in 1..Cardinality(starts) |-> SubSeq(t, Start(k), End(Start(k)))]

\* sep.join(parts)
StrJoin(sep, parts) ==
    ConcatRange([i \in 1..Len(parts) |-> IF i = 1 THEN parts[1] ELSE sep \o parts[i]],
                1, Len(parts))

limpiar_texto_busqueda(texto) ==
    IF Falsy(texto) THEN ""
    ELSE StrJoin(" ", SplitWords(StrLower(NfkdFiltered(texto)), ""))

(***************************************************************************)
(* buscar_video_reciente_en_canal                                          *)
(***************************************************************************)
\* What request.execute() can do (the search provider's answer):
\*   kind "http_error"    : raises googleapiclient.errors.HttpError
\*   kind "exception"     : raises any other exception (transport, ...)
\*   kind "malformed"     : returns a body that is not a JSON object
\*   kind "error_payload" : returns a body with an "error" key, whose value
\*                          has the shape `error` (see ErrorShapes)
\*   kind "ok"            : returns a body whose "items" are `items`, most
\*                          recent first (order="date")
\* An item is [videoId, title]: item["id"]["videoId"] and
\* item["snippet"]["title"].
VideoUrl(video_id) == "https://www.youtube.com/watch?v=" \o video_id

\* `not criterio or criterio in titulo_limpio`
TitleMatches(criterio, item) ==
    criterio = "" \/ Contains(limpiar_texto_busqueda(item.title), criterio)

RECURSIVE FirstMatchFrom(_, _, _)
\* the `for item in items` loop from item i on: the position of the first
\* item that matches, 0 if none
FirstMatchFrom(criterio, items, i) ==
    IF i > Len(items) THEN 0
    ELSE IF TitleMatches(criterio, items[i]) THEN i
    ELSE FirstMatchFrom(criterio, items, i + 1)

FirstMatchIndex(criterio, items) == FirstMatchFrom(criterio, items, 1)

\* A variant that ignores the titles: always the most recent item.
SelectVideo_MostRecent(query, items) ==
    IF items = <<>> THEN None ELSE VideoUrl(items[1].videoId)

\* A variant without the fallback to the most recent item.
SelectVideo_StrictMatch(query, items) ==
    IF items = <<>> THEN None
    ELSE LET criterio == limpiar_texto_busqueda(query)
             k        == FirstMatchIndex(criterio, items)
         IN  IF k > 0 THEN VideoUrl(items[k].videoId) ELSE None

\* lines 175-189: the URL chosen among the items of a well-formed response
SelectVideo(query, items) ==
    IF items = <<>> THEN None
    ELSE LET criterio == limpiar_texto_busqueda(query)
             k        == FirstMatchIndex(criterio, items)
         IN  IF k > 0 THEN VideoUrl(items[k].videoId)
             \* "Si ninguno coincide exactamente con el criterio, devolver
             \* el más reciente"
             ELSE VideoUrl(items[1].videoId)

\* The shapes of response["error"]:
\*   "documented"    : {"errors": [{"reason": ..., "message": ...}], ...}
\*   "no_errors_key" : an object without "errors"   (KeyError at line 167)
\*   "empty_errors"  : {"errors": []}               (IndexError at line 167)
\*   "not_an_object" : a string                     (TypeError at line 167)
ErrorShapes == {"documented", "no_errors_key", "empty_errors", "not_an_object"}

\* the exception `response["error"]["errors"][0]` raises, None if it does not
ErrorDetailsRaises(error) ==
    CASE error = "documented"    -> None
      [] error = "no_errors_key" -> "KeyError"
      [] error = "empty_errors"  -> "IndexError"
      [] error = "not_an_object" -> "TypeError"

\* The try block (lines 151-190): the value it returns, or the class of the
\* exception raised in it (None when it returns).
TryBlock(query, response) ==
    CASE response.kind = "http_error" -> [exc |-> "HttpError", value |-> None]
      [] response.kind = "exception"  -> [exc |-> "Exception", value |-> None]
      \* `"error" in response` / response.get on a body that is no dict
      [] response.kind = "malformed"  -> [exc |-> "AttributeError", value |-> None]
      \* `if "error" in response`: print the details, return None
      [] response.kind = "error_payload" ->
             [exc |-> ErrorDetailsRaises(response.error), value |-> None]
      [] response.kind = "ok" ->
             [exc |-> None, value |-> SelectVideo(query, response.items)]

\* the value of a call whose exception is not caught
Escapes == "<exception>"

\* A variant without except clauses.
buscar_video_reciente_en_canal_NoHandlers(query, response) ==
    LET try == TryBlock(query, response)
    IN  IF try.exc = None THEN try.value ELSE Escapes

\* A variant with the `except HttpError` clause only.
buscar_video_reciente_en_canal_HttpErrorOnly(query, response) ==
    LET try == TryBlock(query, response)
    IN  IF try.exc = None THEN try.value
        ELSE IF try.exc = "HttpError" THEN None
        ELSE Escapes

\* lines 151-200: the try block and its two except clauses
buscar_video_reciente_en_canal(query, response) ==
    LET try == TryBlock(query, response)
    IN  IF try.exc = None THEN try.value
        ELSE IF try.exc = "HttpError" THEN None     \* except HttpError
        ELSE None                                   \* except Exception

(***************************************************************************)
(* SpecYT: buscar_video_reciente_con_fallback over a list of queries       *)
(***************************************************************************)
MaxQueries == 2     \* length of the query list
MaxItems == 2       \* items in one search response

Queries == {"", "PRE MERCADO |", "VISI+N semanal"}

Videos ==
    { [videoId |-> "v1", title |-> "Pre  Mercado | Apertura"],
      [videoId |-> "v2", title |-> "Visi'n SEMANAL de mercados"],
      [videoId |-> "v3", title |-> "Directo"] }

RECURSIVE SeqsUpTo(_, _)
\* the sequences over S of length at most n
SeqsUpTo(S, n) ==
    IF n = 0 THEN {<<>>}
    ELSE LET shorter == SeqsUpTo(S, n - 1)
         IN  shorter \cup { Append(q, x) : q \in shorter, x \in S }

NoRepeat(q) == \A i, j \in 1..Len(q) : i # j => q[i] # q[j]

Responses ==
    { [kind |-> k, items |-> <<>>] : k \in {"http_error", "exception", "malformed"} }
    \cup { [kind |-> "error_payload", items |-> <<>>, error |-> e] : e \in ErrorShapes }
    \cup { [kind |-> "ok", items |-> it] : it \in { q \in SeqsUpTo(Videos, MaxItems) : NoRepeat(q) } }

InitYT ==
    /\ ypc = "loop"
    /\ consultas \in { q \in SeqsUpTo(Queries, MaxQueries) : NoRepeat(q) }
    /\ provider \in [1..Len(consultas) -> Responses]
    /\ yidx = 1
    /\ searches = <<>>
    /\ yresult = None
    /\ ynotice = FALSE
    /\ NormIdle
    /\ TickerIdle
    /\ FinIdle
    /\ VideoIdle
    /\ OrchIdle
    /\ requests_json_caught = TRUE

\* `if not consulta: continue`
FallbackSkip ==
    /\ ypc = "loop"
    /\ yidx <= Len(consultas)
    /\ Falsy(consultas[yidx])
    /\ yidx' = yidx + 1
    /\ UNCHANGED <<ypc, consultas, provider, searches, yresult, ynotice, notYT>>

\* A variant that gives up after the first query searched.
FallbackSearch_NoFallback ==
    /\ ypc = "loop"
    /\ yidx <= Len(consultas)
    /\ ~Falsy(consultas[yidx])
    /\ yresult' = buscar_video_reciente_en_canal(consultas[yidx], provider[yidx])
    /\ searches' = Append(searches, yidx)
    /\ ynotice' = FALSE
    /\ ypc' = "done"
    /\ UNCHANGED <<consultas, provider, yidx, notYT>>

\* A variant that prints the notice for every query that succeeds.
FallbackSearch_AlwaysNotice ==
    /\ ypc = "loop"
    /\ yidx <= Len(consultas)
    /\ ~Falsy(consultas[yidx])
    /\ LET url == buscar_video_reciente_en_canal(consultas[yidx], provider[yidx])
       IN  /\ searches' = Append(searches, yidx)
           /\ IF url = Escapes
              THEN /\ ypc' = "raised"
                   /\ UNCHANGED <<yresult, ynotice, yidx>>
              ELSE IF ~Falsy(url)
              THEN /\ yresult' = url
                   /\ ynotice' = TRUE
                   /\ ypc' = "done"
                   /\ yidx' = yidx
              ELSE /\ yidx' = yidx + 1
                   /\ UNCHANGED <<yresult, ynotice, ypc>>
    /\ UNCHANGED <<consultas, provider, notYT>>

\* url = buscar_video_reciente_en_canal(...); `if url:` return it
FallbackSearch ==
    /\ ypc = "loop"
    /\ yidx <= Len(consultas)
    /\ ~Falsy(consultas[yidx])
    /\ LET url == buscar_video_reciente_en_canal(consultas[yidx], provider[yidx])
       IN  /\ searches' = Append(searches, yidx)
           /\ IF url = Escapes
              \* an exception of the call leaves the loop and the function
              THEN /\ ypc' = "raised"
                   /\ UNCHANGED <<yresult, ynotice, yidx>>
              ELSE IF ~Falsy(url)
              THEN /\ yresult' = url
                   /\ ynotice' = (yidx > 1)
                   /\ ypc' = "done"
                   /\ yidx' = yidx
              ELSE /\ yidx' = yidx + 1
                   /\ UNCHANGED <<yresult, ynotice, ypc>>
    /\ UNCHANGED <<consultas, provider, notYT>>

\* the loop ran out of queries: `return None`
FallbackExhausted ==
    /\ ypc = "loop"
    /\ yidx > Len(consultas)
    /\ yresult' = None
    /\ ypc' = "done"
    /\ UNCHANGED <<consultas, provider, yidx, searches, ynotice, notYT>>

NextYT == FallbackSkip \/ FallbackSearch \/ FallbackExhausted

SpecYT == InitYT /\ [][NextYT]_vars

(***************************************************************************)
(* normalizar_ticker                                                       *)
(***************************************************************************)
crypto_map ==
    ("BTCUSD" :> "BTC-USD") @@ ("ETHUSD" :> "ETH-USD") @@ ("ADAUSD" :> "ADA-USD") @@
    ("SOLUSD" :> "SOL-USD") @@ ("DOTUSD" :> "DOT-USD") @@ ("DOGEUSD" :> "DOGE-USD") @@
    ("MATICUSD" :> "MATIC-USD") @@ ("XRPUSD" :> "XRP-USD") @@ ("LINKUSD" :> "LINK-USD") @@
    ("LTCUSD" :> "LTC-USD") @@ ("UNIUSD" :> "UNI-USD") @@ ("XLMUSD" :> "XLM-USD")

commodity_map ==
    ("PAXGUSD" :> "PAXG-USD") @@ ("GOLDUSD" :> "GOLD-USD") @@
    ("SILVERUSD" :> "SILVER-USD") @@ ("XAUUSD" :> "GLD") @@ ("XAGUSD" :> "SLV")

\* dict in insertion order: <<suffix, replacement>>
market_suffixes ==
    << <<".F", "">>, <<".DE", "">>, <<".L", "">>, <<".PA", "">>, <<".AS", "">>,
       <<".MI", "">>, <<".MC", "">>, <<".SW", "">>, <<".TO", "">>, <<".AX", "">>,
       <<".HK", "">>, <<".T", "">> >>

specific_map ==
    ("NVD.F" :> "NVDA") @@ ("NVDA.F" :> "NVDA") @@ ("GOOGL.F" :> "GOOGL") @@
    ("GOOG.F" :> "GOOGL") @@ ("AAPL.F" :> "AAPL") @@ ("MSFT.F" :> "MSFT") @@
    ("AMZN.F" :> "AMZN") @@ ("TSLA.F" :> "TSLA") @@ ("META.F" :> "META") @@
    ("NFLX.F" :> "NFLX")

\* the `for suffix, replacement in market_suffixes.items()` loop: the first
\* suffix (in dict order) the ticker ends with, every occurrence replaced
StripMarketSuffix(ticker) ==
    IF \E i \in 1..Len(market_suffixes) : EndsWith(ticker, market_suffixes[i][1])
    THEN LET i == CHOOSE k \in 1..Len(market_suffixes) :
                     /\ EndsWith(ticker, market_suffixes[k][1])
                     /\ \A j \in 1..(k - 1) : ~EndsWith(ticker, market_suffixes[j][1])
         IN  StrReplace(ticker, market_suffixes[i][1], market_suffixes[i][2])
    ELSE ticker

\* variants of normalizar_ticker: the suffix rule tried before the tables,
\* and the function without its `if not ticker` guard
normalizar_ticker_SuffixFirst(ticker0) ==
    IF Falsy(ticker0) THEN ticker0
    ELSE LET ticker == StripMarketSuffix(StrUpper(StrStrip(ticker0)))
         IN  IF ticker \in DOMAIN specific_map THEN specific_map[ticker]
             ELSE IF ticker \in DOMAIN crypto_map THEN crypto_map[ticker]
             ELSE IF ticker \in DOMAIN commodity_map THEN commodity_map[ticker]
             ELSE ticker

normalizar_ticker_NoGuard(ticker0) ==
    LET ticker == StrUpper(StrStrip(ticker0))
    IN  IF ticker \in DOMAIN specific_map THEN specific_map[ticker]
        ELSE IF ticker \in DOMAIN crypto_map THEN crypto_map[ticker]
        ELSE IF ticker \in DOMAIN commodity_map THEN commodity_map[ticker]
        ELSE StripMarketSuffix(ticker)

normalizar_ticker(ticker0) ==
    IF Falsy(ticker0) THEN ticker0
    ELSE LET ticker == StrUpper(StrStrip(ticker0))
         IN  IF ticker \in DOMAIN specific_map THEN specific_map[ticker]
             ELSE IF ticker \in DOMAIN crypto_map THEN crypto_map[ticker]
             ELSE IF ticker \in DOMAIN commodity_map THEN commodity_map[ticker]
             ELSE StripMarketSuffix(ticker)

(***************************************************************************)
(* SpecNorm: normalizar_ticker applied to a raw ticker, then to its result *)
(***************************************************************************)
\* Raw tickers: a base symbol followed by up to MaxSuffixes market suffixes,
\* every key of the three tables, and a symbol typed with the Kelvin sign;
\* each as stored (upper case), lower-cased, or padded with blanks; and None.
MaxSuffixes == 2

BaseSymbols == {"", "AAPL", "NVD", "GOOG", "MSFT", "BTCUSD", "XAUUSD", "A.FB"}

RECURSIVE WithSuffixes(_)
WithSuffixes(n) ==
    IF n = 0 THEN BaseSymbols
    ELSE LET shorter == WithSuffixes(n - 1)
         IN  shorter \cup
             { s \o market_suffixes[i][1] : s \in shorter, i \in 1..Len(market_suffixes) }

TableKeys == DOMAIN specific_map \cup DOMAIN crypto_map \cup DOMAIN commodity_map

RawTickers ==
    LET stored == WithSuffixes(MaxSuffixes) \cup TableKeys \cup {KelvinSign \o "O"}
    IN  stored \cup { StrLower(s) : s \in stored } \cup { " " \o s \o " " : s \in stored }
        \cup {None}

InitNorm ==
    /\ npc = "in"
    /\ raw \in RawTickers
    /\ norm1 = None
    /\ norm2 = None
    /\ norm_lower = None
    /\ YTIdle
    /\ TickerIdle
    /\ FinIdle
    /\ VideoIdle
    /\ OrchIdle
    /\ requests_json_caught = TRUE

\* result = normalizar_ticker(raw)
NormalizeOnce ==
    /\ npc = "in"
    /\ norm1' = normalizar_ticker(raw)
    /\ npc' = "once"
    /\ UNCHANGED <<raw, norm2, norm_lower, notNorm>>

\* normalizar_ticker(result)
NormalizeAgain ==
    /\ npc = "once"
    /\ norm2' = normalizar_ticker(norm1)
    /\ npc' = "twice"
    /\ UNCHANGED <<raw, norm1, norm_lower, notNorm>>

\* normalizar_ticker(raw.lower()), for a raw ticker that is a str
NormalizeLower ==
    /\ npc = "twice"
    /\ raw # None
    /\ norm_lower' = normalizar_ticker(StrLower(raw))
    /\ npc' = "lower"
    /\ UNCHANGED <<raw, norm1, norm2, notNorm>>

NextNorm == NormalizeOnce \/ NormalizeAgain \/ NormalizeLower

SpecNorm == InitNorm /\ [][NextNorm]_vars

(***************************************************************************)
(* JSON values, DataFrames and the results of the provider functions       *)
(***************************************************************************)
\* a field of a JSON object: a number, a string, null, or no such key
Num(n) == [t |-> "num", v |-> n]
Str(s) == [t |-> "str", v |-> s]
Null == [t |-> "null"]
Missing == [t |-> "missing"]

\* dict.get(key, default)
DictGet(field, default) == IF field = Missing THEN default ELSE field

RECURSIVE IntToStr(_)
\* str(n) for a natural number
IntToStr(n) ==
    IF n < 10 THEN CharAt(Digits, n + 1)
    ELSE IntToStr(n \div 10) \o CharAt(Digits, (n % 10) + 1)

\* f"{value}": str() of a JSON value
PyStr(value) ==
    CASE value.t = "num"  -> IntToStr(value.v)
      [] value.t = "str"  -> value.v
      [] value.t = "null" -> "None"

RECURSIVE GroupThousands(_)
GroupThousands(digits) ==
    IF Len(digits) <= 3 THEN digits
    ELSE GroupThousands(SubSeq(digits, 1, Len(digits) - 3)) \o ","
         \o SubSeq(digits, Len(digits) - 2, Len(digits))

\* f"{value:,.2f}": defined for numbers only; a str raises ValueError, None
\* raises TypeError.  (The model's numbers are naturals.)
FormatCurrency(value) ==
    IF value.t = "num"
    THEN [raised |-> FALSE, text |-> GroupThousands(IntToStr(value.v)) \o ".00"]
    ELSE [raised |-> TRUE, text |-> ""]

\* value[:500]: defined for strings only; None and numbers raise TypeError
MaxDescription == 500

SliceDescription(value) ==
    IF value.t = "str"
    THEN [raised |-> FALSE,
          text |-> SubSeq(value.v, 1, IF Len(value.v) < MaxDescription
                                      THEN Len(value.v) ELSE MaxDescription)]
    ELSE [raised |-> TRUE, text |-> ""]

\* a pandas DataFrame: its columns (the index column excluded) and its
\* number of rows
DataFrame(cols, rows) == [t |-> "df", cols |-> cols, rows |-> rows]

\* what a call returns or raises
Returned(v) == [raised |-> FALSE, value |-> v]
Raises == [raised |-> TRUE, value |-> NoneVal]

\* What a provider answers to requests.get(url):
\*   "conn_error" : requests.get raises a RequestException
\*   "http_error" : raise_for_status() raises HTTPError
\*   "bad_json"   : the body is not JSON (response.json() raises)
\*   "json"       : the decoded body is `data`, a record with a `shape`
Answer(kind, data) == [kind |-> kind, data |-> data]

\* the try block up to `data = response.json()`: "caught" when a
\* requests.exceptions.RequestException is raised (the except clause returns
\* None), "escapes" when another exception is raised, "data" otherwise
HttpOutcome(answer, json_caught) ==
    CASE answer.kind \in {"conn_error", "http_error"} -> "caught"
      [] answer.kind = "bad_json" -> IF json_caught THEN "caught" ELSE "escapes"
      [] answer.kind = "json" -> "data"

\* JSON bodies common to the providers: an empty body ({} or []) and an
\* error object ({"Error Message": ...}, {"Note": ...})
EmptyBody == [shape |-> "empty"]
ErrorObject == [shape |-> "error_object"]

(***************************************************************************)
(* The provider functions of financial_api.py                              *)
(***************************************************************************)
DIAS_HISTORICOS == 1

\* body {"Time Series (Daily)": {...}} with `rows` entries
TimeSeries(rows) == [shape |-> "time_series", rows |-> rows]

PriceColumns == <<"Open", "High", "Low", "Close", "Volume">>

get_alpha_vantage_daily_prices(answer, json_caught) ==
    CASE HttpOutcome(answer, json_caught) = "caught"  -> Returned(NoneVal)
      [] HttpOutcome(answer, json_caught) = "escapes" -> Raises
      [] HttpOutcome(answer, json_caught) = "data" ->
            IF answer.data.shape = "time_series"
            THEN Returned(DataFrame(PriceColumns, answer.data.rows))
            ELSE Returned(NoneVal)

get_alpha_vantage_intraday_prices(answer, json_caught) ==
    CASE HttpOutcome(answer, json_caught) = "caught"  -> Returned(NoneVal)
      [] HttpOutcome(answer, json_caught) = "escapes" -> Raises
      [] HttpOutcome(answer, json_caught) = "data" ->
            IF answer.data.shape = "time_series"
            THEN Returned(DataFrame(PriceColumns, answer.data.rows))
            ELSE Returned(NoneVal)

\* body [ {...profile...} ]: a list whose first element is `first`, a record
\* of JSON fields (all of them Missing for {})
ProfileList(first) == [shape |-> "list", first |-> first]

ProfileFields == {"companyName", "symbol", "sector", "industry", "mktCap",
                  "currency", "price", "description"}

EmptyDict(profile) == \A f \in ProfileFields : profile[f] = Missing

get_fmp_company_profile(answer, json_caught) ==
    CASE HttpOutcome(answer, json_caught) = "caught"  -> Returned(NoneVal)
      [] HttpOutcome(answer, json_caught) = "escapes" -> Raises
      [] HttpOutcome(answer, json_caught) = "data" ->
            \* `data and isinstance(data, list) and data[0]`
            IF answer.data.shape = "list" /\ ~EmptyDict(answer.data.first)
            THEN Returned([t |-> "profile", fields |-> answer.data.first])
            ELSE Returned(NoneVal)

\* body [ {...}, ... ]: a non-empty list of `rows` records with the keys
\* `keys`
RecordList(keys, rows) == [shape |-> "records", keys |-> keys, rows |-> rows]

InSeq(x, q) == \E i \in 1..Len(q) : q[i] = x

\* the columns left when `key` becomes the index (set_index)
Without(q, key) == SelectSeq(q, LAMBDA c : c # key)

get_fmp_financial_statements(answer, json_caught) ==
    CASE HttpOutcome(answer, json_caught) = "caught"  -> Returned(NoneVal)
      [] HttpOutcome(answer, json_caught) = "escapes" -> Raises
      [] HttpOutcome(answer, json_caught) = "data" ->
            IF answer.data.shape = "records"
            THEN \* pd.DataFrame(data).set_index('date'): KeyError without
                 \* a 'date' column; the function catches RequestException
                 \* only
                 IF InSeq("date", answer.data.keys)
                 THEN Returned(DataFrame(Without(answer.data.keys, "date"), answer.data.rows))
                 ELSE Raises
            ELSE Returned(NoneVal)

\* What yf.download does: "raises", "empty" (an empty DataFrame) or "data".
\* The function catches every Exception.
get_yfinance_historical_data(answer) ==
    CASE answer.kind = "raises" -> Returned(NoneVal)
      [] answer.kind = "empty"  -> Returned(NoneVal)
      [] answer.kind = "data"   -> Returned(DataFrame(PriceColumns, answer.rows))

\* get_finnhub_quote also catches json.JSONDecodeError
get_finnhub_quote(answer) ==
    CASE answer.kind \in {"conn_error", "http_error", "bad_json"} -> FALSE
      [] answer.kind = "json" -> answer.data.shape = "quote"

get_finnhub_company_news(answer, json_caught) ==
    CASE HttpOutcome(answer, json_caught) = "caught"  -> Returned(NoneVal)
      [] HttpOutcome(answer, json_caught) = "escapes" -> Raises
      [] HttpOutcome(answer, json_caught) = "data" ->
            IF answer.data.shape = "records"
            THEN \* df['datetime']: KeyError without that column
                 IF InSeq("datetime", answer.data.keys)
                 THEN Returned(DataFrame(answer.data.keys, answer.data.rows))
                 ELSE Raises
            ELSE Returned(NoneVal)

(***************************************************************************)
(* generate_markdown_report                                                *)
(***************************************************************************)
\* A report is the sequence of the strings the code appends to `report`,
\* in order; the report itself is their concatenation.
Text(chunks) == [t |-> "text", chunks |-> chunks]

\* datetime.datetime.now().strftime('%Y-%m-%d %H:%M:%S')
NOW == "<now>"

\* f"{ticker}" for an Optional[str]
PyStrOpt(s) == IF s = None THEN "None" ELSE s

\* DataFrame.empty: no rows or no columns
IsEmptyDF(df) == df.rows = 0 \/ df.cols = <<>>

Min(a, b) == IF a < b THEN a ELSE b

\* DataFrame.to_markdown(): the table of the given columns and rows
ToMarkdown(cols, rows) ==
    "| " \o StrJoin(" | ", cols) \o " | x " \o IntToStr(rows)

\* [col for col in cols if col in df.columns]
SelectColumns(df, cols) == SelectSeq(cols, LAMBDA c : InSeq(c, df.cols))

\* df.iloc[:, :6]
FirstColumns(df, n) == SubSeq(df.cols, 1, Min(n, Len(df.cols)))

NoProfile == "No se pudo obtener el perfil de la empresa.\n"
NoIncome == "No se pudo obtener el Estado de Resultados.\n"
NoBalance == "No se pudo obtener el Balance General.\n"
NoCashFlow == "No se pudo obtener el Flujo de Caja.\n"
NoDailyAV == "No se pudieron obtener los precios diarios de Alpha Vantage.\n"
NoIntradayAV == "No se pudieron obtener los precios intradia de Alpha Vantage.\n"
NoDailyYF == "No se pudieron obtener los precios diarios de yfinance.\n"
NoNews(ticker) ==
    "No se pudieron obtener noticias recientes de Finnhub para " \o PyStrOpt(ticker) \o ".\n"

NA == Str("N/A")

\* lines 356-368; raises when the market capitalisation is not a number or
\* the description is not a string
ProfileSection(profile) ==
    IF profile = NoneVal
    THEN Returned(<<"## 1. Perfil y Datos Generales (FMP)\n", NoProfile, "\n">>)
    ELSE LET p    == profile.fields
             cap  == FormatCurrency(DictGet(p.mktCap, NA))
             desc == SliceDescription(DictGet(p.description, NA))
         IN  IF cap.raised \/ desc.raised THEN Raises
             ELSE Returned(
                <<"## 1. Perfil y Datos Generales (FMP)\n",
                  "* **Nombre de la Empresa:** " \o PyStr(DictGet(p.companyName, NA)) \o "\n",
                  "* **Simbolo:** " \o PyStr(DictGet(p.symbol, NA)) \o "\n",
                  "* **Sector:** " \o PyStr(DictGet(p.sector, NA)) \o "\n",
                  "* **Industria:** " \o PyStr(DictGet(p.industry, NA)) \o "\n",
                  "* **Capitalizacion de Mercado:** $" \o cap.text \o "\n",
                  "* **Moneda:** " \o PyStr(DictGet(p.currency, NA)) \o "\n",
                  "* **Ultimo Precio de Cierre (FMP):** $" \o PyStr(DictGet(p.price, NA)) \o "\n",
                  "* **Descripcion:** " \o desc.text \o "...\n",
                  "\n">>)

desired_cols_is == <<"revenue", "costOfRevenue", "grossProfit", "operatingIncome",
                     "netIncome", "eps">>
desired_cols_bs == <<"cashAndCashEquivalents", "totalCurrentAssets", "totalAssets",
                     "totalCurrentLiabilities", "totalLiabilities", "totalEquity">>
desired_cols_cf == <<"netIncome", "depreciationAndAmortization", "changesInWorkingCapital",
                     "cashFlowFromOperatingActivities", "capitalExpenditure",
                     "cashFlowFromFinancingActivities">>

FallbackColumns == 6

\* one of the blocks 2.1, 2.2, 2.3 (lines 374-410)
StatementSection(df, heading, desired, absent) ==
    IF df # NoneVal /\ ~IsEmptyDF(df)
    THEN LET available == SelectColumns(df, desired)
         IN  IF available # <<>>
             THEN <<heading, ToMarkdown(available, df.rows) \o "\n\n">>
             ELSE <<heading,
                    "Columnas esperadas no encontradas. Mostrando primeras 6 columnas disponibles:\n",
                    ToMarkdown(FirstColumns(df, FallbackColumns), df.rows) \o "\n\n">>
    ELSE <<absent>>

IntradayBars == 100

\* lines 413-432
PriceSections(daily_prices_av, intraday_prices_av, daily_prices_yf) ==
    <<"## 3. Datos Historicos de Precios e Indicadores\n">>
    \o (IF daily_prices_av # NoneVal /\ ~IsEmptyDF(daily_prices_av)
        THEN <<"### 3.1. Precios Diarios (Alpha Vantage - Ultimos "
                 \o IntToStr(Min(daily_prices_av.rows, DIAS_HISTORICOS)) \o " Dias)\n",
               ToMarkdown(daily_prices_av.cols, Min(daily_prices_av.rows, DIAS_HISTORICOS)) \o "\n\n">>
        ELSE <<NoDailyAV>>)
    \o (IF intraday_prices_av # NoneVal /\ ~IsEmptyDF(intraday_prices_av)
        THEN <<"### 3.2. Precios Intradia (Alpha Vantage - Intervalo de 5min - Ultimas 100 barras)\n",
               "_Nota: La disponibilidad de datos de pre-mercado especificos depende del plan y configuracion de la API._\n",
               ToMarkdown(intraday_prices_av.cols, Min(intraday_prices_av.rows, IntradayBars)) \o "\n\n">>
        ELSE <<NoIntradayAV>>)
    \o (IF daily_prices_yf # NoneVal /\ ~IsEmptyDF(daily_prices_yf)
        THEN <<"### 3.3. Precios Diarios (yfinance - Ultimos "
                 \o IntToStr(Min(daily_prices_yf.rows, DIAS_HISTORICOS)) \o " Dias)\n",
               ToMarkdown(daily_prices_yf.cols, Min(daily_prices_yf.rows, DIAS_HISTORICOS)) \o "\n\n">>
        ELSE <<NoDailyYF>>)

cols_news == <<"datetime", "headline", "source", "url">>

NewsHead == 10

\* lines 435-441; finnhub_news[cols_news] raises KeyError when a column is
\* missing
NewsSection(ticker, finnhub_news) ==
    IF finnhub_news # NoneVal /\ ~IsEmptyDF(finnhub_news)
    THEN IF \A i \in 1..Len(cols_news) : InSeq(cols_news[i], finnhub_news.cols)
         THEN Returned(<<"## 4. Noticias Recientes y Eventos (Finnhub)\n",
                         "### 4.1. Ultimas Noticias de la Empresa\n",
                         ToMarkdown(cols_news, Min(finnhub_news.rows, NewsHead)) \o "\n\n">>)
         ELSE Raises
    ELSE Returned(<<"## 4. Noticias Recientes y Eventos (Finnhub)\n", NoNews(ticker)>>)

generate_markdown_report(ticker, profile, daily_prices_av, intraday_prices_av, income_statement_fmp, balance_sheet_fmp, cash_flow_fmp, daily_prices_yf, finnhub_news) ==
    LET perfil   == ProfileSection(profile)
        noticias == NewsSection(ticker, finnhub_news)
    IN  IF perfil.raised \/ noticias.raised THEN Raises
        ELSE Returned(Text(
            <<"# Analisis Financiero de " \o PyStrOpt(ticker) \o "\n\n",
              "Generado el: " \o NOW \o "\n\n",
              "---\n\n">>
            \o perfil.value
            \o <<"## 2. Datos Fundamentales Clave (FMP - Ultimo Reporte Anual)\n">>
            \o StatementSection(income_statement_fmp,
                                "### 2.1. Estado de Resultados (Income Statement)\n",
                                desired_cols_is, NoIncome)
            \o StatementSection(balance_sheet_fmp,
                                "### 2.2. Balance General (Balance Sheet)\n",
                                desired_cols_bs, NoBalance)
            \o StatementSection(cash_flow_fmp,
                                "### 2.3. Flujo de Caja (Cash Flow Statement)\n",
                                desired_cols_cf, NoCashFlow)
            \o PriceSections(daily_prices_av, intraday_prices_av, daily_prices_yf)
            \o noticias.value
            \o <<"---\n\n",
                 "_Analisis generado automaticamente. Los datos pueden variar segun la disponibilidad de la API y los limites del plan._\n">>))

(***************************************************************************)
(* procesar_ticker                                                         *)
(***************************************************************************)
\* The facets of a ticker, named as the local variables of procesar_ticker,
\* in the order they are fetched
Facets == <<"profile", "income_statement", "balance_sheet", "cash_flow",
            "daily_prices_av", "intraday_prices_av", "daily_prices_yf",
            "finnhub_news">>

\* The answers the model lets a provider give.  The first of each list is
\* the answer of a provider that works.
FullProfile ==
    [companyName |-> Str("NVIDIA Corporation"), symbol |-> Str("NVDA"),
     sector |-> Str("Technology"), industry |-> Str("Semiconductors"),
     mktCap |-> Num(1234567), currency |-> Str("USD"), price |-> Num(120),
     description |-> Str("Designs graphics processors.")]

ProfileAnswers ==
    <<Answer("json", ProfileList(FullProfile)),
      Answer("json", ProfileList([FullProfile EXCEPT !.mktCap = Missing])),
      Answer("json", ProfileList([FullProfile EXCEPT !.mktCap = Null])),
      Answer("json", ProfileList([FullProfile EXCEPT !.description = Null])),
      Answer("json", ProfileList([f \in ProfileFields |-> Missing])),
      Answer("json", EmptyBody),
      Answer("json", ErrorObject),
      Answer("conn_error", NoneVal),
      Answer("http_error", NoneVal),
      Answer("bad_json", NoneVal)>>

StatementAnswers ==
    <<Answer("json", RecordList(<<"date", "revenue", "netIncome">>, 1)),
      Answer("json", RecordList(<<"date", "symbol", "period">>, 1)),
      Answer("json", RecordList(<<"date">>, 1)),
      Answer("json", RecordList(<<"revenue", "netIncome">>, 1)),
      Answer("json", EmptyBody),
      Answer("json", ErrorObject),
      Answer("conn_error", NoneVal),
      Answer("http_error", NoneVal),
      Answer("bad_json", NoneVal)>>

TimeSeriesAnswers ==
    <<Answer("json", TimeSeries(2)),
      Answer("json", TimeSeries(0)),
      Answer("json", EmptyBody),
      Answer("json", ErrorObject),
      Answer("conn_error", NoneVal),
      Answer("http_error", NoneVal),
      Answer("bad_json", NoneVal)>>

YFinanceAnswers ==
    <<[kind |-> "data", rows |-> 2],
      [kind |-> "empty", rows |-> 0],
      [kind |-> "raises", rows |-> 0]>>

NewsAnswers ==
    <<Answer("json", RecordList(<<"datetime", "headline", "source", "url">>, 2)),
      Answer("json", RecordList(<<"datetime", "headline">>, 2)),
      Answer("json", RecordList(<<"headline", "source", "url">>, 2)),
      Answer("json", EmptyBody),
      Answer("json", ErrorObject),
      Answer("conn_error", NoneVal),
      Answer("http_error", NoneVal),
      Answer("bad_json", NoneVal)>>

Range(q) == { q[i] : i \in 1..Len(q) }

\* A provider-level failure of a facet: a transport or HTTP error, a body
\* that is not JSON, an empty payload, an error object, or records without
\* the key the code reads
ProviderFailure(facet, answer) ==
    \/ answer.kind \in {"conn_error", "http_error", "bad_json", "raises", "empty"}
    \/ /\ answer.kind = "json"
       /\ \/ answer.data.shape \in {"empty", "error_object"}
          \/ /\ answer.data.shape = "time_series"
             /\ answer.data.rows = 0
          \/ /\ answer.data.shape = "list"
             /\ EmptyDict(answer.data.first)
          \/ /\ answer.data.shape = "records"
             /\ facet \in {"income_statement", "balance_sheet", "cash_flow"}
             /\ ~InSeq("date", answer.data.keys)
          \/ /\ answer.data.shape = "records"
             /\ facet = "finnhub_news"
             /\ \E i \in 1..Len(cols_news) : ~InSeq(cols_news[i], answer.data.keys)

\* the answers that are not the one of a working provider
Anomalous(answers, answer) == answer # answers[1]

\* the bound of the model checking: at most this many facets of a ticker
\* get an answer other than the working provider's
MaxAnomalies == 3

AnswerSets ==
    [profile |-> ProfileAnswers, income_statement |-> StatementAnswers,
     balance_sheet |-> StatementAnswers, cash_flow |-> StatementAnswers,
     daily_prices_av |-> TimeSeriesAnswers, intraday_prices_av |-> TimeSeriesAnswers,
     daily_prices_yf |-> YFinanceAnswers, finnhub_news |-> NewsAnswers]

\* what the fetch function of a facet does with the provider's answer
Fetch(facet, answer, json_caught) ==
    CASE facet = "profile" -> get_fmp_company_profile(answer, json_caught)
      [] facet \in {"income_statement", "balance_sheet", "cash_flow"} ->
            get_fmp_financial_statements(answer, json_caught)
      [] facet = "daily_prices_av" -> get_alpha_vantage_daily_prices(answer, json_caught)
      [] facet = "intraday_prices_av" -> get_alpha_vantage_intraday_prices(answer, json_caught)
      [] facet = "daily_prices_yf" -> get_yfinance_historical_data(answer)
      [] facet = "finnhub_news" -> get_finnhub_company_news(answer, json_caught)

RECURSIVE FetchAll(_, _, _, _)
\* lines 471-484: the eight fetches in order, up to the first that raises.
\* Yields [raised, value], value being the bundle facet -> result.
FetchAll(answers, json_caught, i, fetched) ==
    IF i > Len(Facets) THEN Returned(fetched)
    ELSE LET r == Fetch(Facets[i], answers[Facets[i]], json_caught)
         IN  IF r.raised THEN Raises
             ELSE FetchAll(answers, json_caught, i + 1, fetched @@ (Facets[i] :> r.value))

Render(ticker, b) ==
    generate_markdown_report(ticker, b.profile, b.daily_prices_av, b.intraday_prices_av,
                             b.income_statement, b.balance_sheet, b.cash_flow,
                             b.daily_prices_yf, b.finnhub_news)

\* procesar_ticker as a function of its argument and of what the providers
\* answer: the report, or None when anything in the try block raised
procesar_ticker(ticker, answers, json_caught) ==
    LET normalizado == normalizar_ticker(ticker)
        fetched == FetchAll(answers, json_caught, 1, <<>>)
    IN  IF fetched.raised THEN NoneVal
        ELSE LET report_content == Render(normalizado, fetched.value)
             IN  IF report_content.raised THEN NoneVal ELSE report_content.value

(***************************************************************************)
(* SpecTicker: one call of procesar_ticker, one step per statement of its  *)
(* try block.  The provider's answer to a request is chosen when the       *)
(* request is made.                                                        *)
(***************************************************************************)
TickerInputs == {"NVD.F", " aapl "}

InitTicker ==
    /\ tpc = "normalizar"
    /\ traw \in TickerInputs
    /\ tnorm = None
    /\ bundle = <<>>
    /\ requested = <<>>
    /\ tfailed = {}
    /\ traised = None
    /\ tresult = NoneVal
    /\ requests_json_caught \in BOOLEAN
    /\ NormIdle
    /\ YTIdle
    /\ FinIdle
    /\ VideoIdle
    /\ OrchIdle

\* the requests so far that got an answer other than the working provider's
AnomaliesSoFar ==
    Cardinality({ i \in 1..Len(requested) :
                    Anomalous(AnswerSets[requested[i].facet], requested[i].answer) })

\* line 463, before the try block
NormalizeTicker ==
    /\ tpc = "normalizar"
    /\ tnorm' = normalizar_ticker(traw)
    /\ tpc' = "profile"
    /\ UNCHANGED <<traw, bundle, requested, tfailed, traised, tresult, notTicker>>

\* A variant that requests a facet again after a provider failure.
FetchFacet_Retry(facet, next) ==
    /\ tpc = facet
    /\ \E answer \in Range(AnswerSets[facet]) :
          /\ Anomalous(AnswerSets[facet], answer) => AnomaliesSoFar < MaxAnomalies
          /\ requested' = Append(requested, [facet |-> facet, answer |-> answer])
          /\ tfailed' = IF ProviderFailure(facet, answer)
                        THEN tfailed \cup {facet} ELSE tfailed
          /\ LET r == Fetch(facet, answer, requests_json_caught)
             IN  IF r.raised
                 THEN /\ tpc' = "done"
                      /\ traised' = facet
                      /\ tresult' = NoneVal
                      /\ bundle' = bundle
                 ELSE /\ tpc' = (IF ProviderFailure(facet, answer) THEN facet ELSE next)
                      /\ bundle' = [f \in DOMAIN bundle \cup {facet} |->
                                        IF f = facet THEN r.value ELSE bundle[f]]
                      /\ UNCHANGED <<traised, tresult>>
    /\ UNCHANGED <<traw, tnorm, notTicker>>

\* One fetch of the try block: the request is made once; when the fetch
\* function raises, the except clause of procesar_ticker returns None.
FetchFacet(facet, next) ==
    /\ tpc = facet
    /\ \E answer \in Range(AnswerSets[facet]) :
          /\ Anomalous(AnswerSets[facet], answer) => AnomaliesSoFar < MaxAnomalies
          /\ requested' = Append(requested, [facet |-> facet, answer |-> answer])
          /\ tfailed' = IF ProviderFailure(facet, answer)
                        THEN tfailed \cup {facet} ELSE tfailed
          /\ LET r == Fetch(facet, answer, requests_json_caught)
             IN  IF r.raised
                 THEN /\ tpc' = "done"
                      /\ traised' = facet
                      /\ tresult' = NoneVal
                      /\ bundle' = bundle
                 ELSE /\ tpc' = next
                      /\ bundle' = bundle @@ (facet :> r.value)
                      /\ UNCHANGED <<traised, tresult>>
    /\ UNCHANGED <<traw, tnorm, notTicker>>

FetchProfile == FetchFacet("profile", "income_statement")

FetchIncomeStatement == FetchFacet("income_statement", "balance_sheet")

FetchBalanceSheet == FetchFacet("balance_sheet", "cash_flow")

FetchCashFlow == FetchFacet("cash_flow", "daily_prices_av")

FetchDailyPricesAV == FetchFacet("daily_prices_av", "intraday_prices_av")

FetchIntradayPricesAV == FetchFacet("intraday_prices_av", "daily_prices_yf")

FetchDailyPricesYF == FetchFacet("daily_prices_yf", "finnhub_news")

FetchNews == FetchFacet("finnhub_news", "render")

\* lines 487-497: render and return, or return None when rendering raises
GenerateReport ==
    /\ tpc = "render"
    /\ LET report_content == Render(tnorm, bundle)
       IN  IF report_content.raised
           THEN /\ traised' = "render"
                /\ tresult' = NoneVal
           ELSE /\ traised' = traised
                /\ tresult' = report_content.value
    /\ tpc' = "done"
    /\ UNCHANGED <<traw, tnorm, bundle, requested, tfailed, notTicker>>

NextTicker ==
    \/ NormalizeTicker
    \/ FetchProfile
    \/ FetchIncomeStatement
    \/ FetchBalanceSheet
    \/ FetchCashFlow
    \/ FetchDailyPricesAV
    \/ FetchIntradayPricesAV
    \/ FetchDailyPricesYF
    \/ FetchNews
    \/ GenerateReport

SpecTicker == InitTicker /\ [][NextTicker]_vars

(***************************************************************************)
(* database.py: clients, portfolios and assets                             *)
(***************************************************************************)
\* A client is [user_id, first_name, last_name, portfolios]; a portfolio is
\* the list of the tickers (asset_symbol) of its assets.
Cliente(user_id, first_name, last_name, portfolios) ==
    [user_id |-> user_id, first_name |-> first_name, last_name |-> last_name,
     portfolios |-> portfolios]

\* Cliente.nombre_completo
nombre_completo(cliente) ==
    LET parts == SelectSeq(<<cliente.first_name, cliente.last_name>>,
                           LAMBDA p : ~Falsy(p))
    IN  IF parts # <<>> THEN StrJoin(" ", parts)
        ELSE "Usuario " \o cliente.user_id

RECURSIVE Flatten(_)
Flatten(lists) ==
    IF lists = <<>> THEN <<>> ELSE Head(lists) \o Flatten(Tail(lists))

\* Cliente.get_todos_los_assets: the assets of all portfolios, in order
get_todos_los_assets(cliente) == Flatten(cliente.portfolios)

\* every list whose elements are the elements of S, each once
SeqsOfSet(S) == { q \in [1..Cardinality(S) -> S] : Range(q) = S }

\* A variant that removes the duplicates among the normalized tickers.
get_todos_los_tickers_Normalized(cliente) ==
    SeqsOfSet({ normalizar_ticker(t) : t \in Range(get_todos_los_assets(cliente)) })

\* A variant that keeps a ticker once per asset.
get_todos_los_tickers_PerAsset(cliente) == { get_todos_los_assets(cliente) }

\* Cliente.get_todos_los_tickers: list(set(...)).  The order of the list
\* is the iteration order of a Python set, so every order is possible; the
\* operator yields the lists the method can return.
get_todos_los_tickers(cliente) == SeqsOfSet(Range(get_todos_los_assets(cliente)))

(***************************************************************************)
(* procesar_cliente: the reports of one client                             *)
(***************************************************************************)
Delimiter == "\n\n<br><hr><br>\n\n"

RECURSIVE JoinReports(_, _)
\* sep.join(contents) on reports: the chunks of the reports with the
\* separator between two consecutive reports
JoinReports(sep, contents) ==
    IF contents = <<>> THEN <<>>
    ELSE IF Len(contents) = 1 THEN contents[1].chunks
    ELSE contents[1].chunks \o <<sep>> \o JoinReports(sep, Tail(contents))

\* A variant that puts the separator after every report.
FinalReport_TrailingDelimiter(cliente, informes) ==
    Text(<<"# Analisis Financiero Consolidado - Cliente: " \o nombre_completo(cliente) \o "\n",
           "## User ID: " \o cliente.user_id \o "\n",
           "## Portfolio: " \o StrJoin(", ", [i \in 1..Len(informes) |-> informes[i].ticker]) \o "\n",
           "## Generado el: " \o NOW \o "\n\n">>
         \o JoinReports(Delimiter, [i \in 1..Len(informes) |-> informes[i].contenido])
         \o <<Delimiter>>)

\* lines 567-572: consolidated_title + delimiter.join(contents)
FinalReport(cliente, informes) ==
    Text(<<"# Analisis Financiero Consolidado - Cliente: " \o nombre_completo(cliente) \o "\n",
           "## User ID: " \o cliente.user_id \o "\n",
           "## Portfolio: " \o StrJoin(", ", [i \in 1..Len(informes) |-> informes[i].ticker]) \o "\n",
           "## Generado el: " \o NOW \o "\n\n">>
         \o JoinReports(Delimiter, [i \in 1..Len(informes) |-> informes[i].contenido]))

\* A variant that consolidates whenever it is asked to.
GenerarConsolidado_Always(generar_consolidado, informes) == generar_consolidado

\* line 565: `if generar_consolidado and informes_generados`
GenerarConsolidado(generar_consolidado, informes) ==
    generar_consolidado /\ informes # <<>>

\* the pauses of the two loops
PausaTickers == 15
PausaClientes == 30

\* What the providers answer for one ticker, facet by facet.  The model
\* lets a ticker meet working providers or an income statement without
\* its 'date' key.
Working == [f \in Range(Facets) |-> AnswerSets[f][1]]

TickerScenarios ==
    { Working,
      [Working EXCEPT !.income_statement =
                          Answer("json", RecordList(<<"revenue", "netIncome">>, 1))] }

\* A variant that reports every unique ticker as generated.
Stats_AllGenerated(cliente, unique, informes, errs) ==
    [cliente_id |-> cliente.user_id,
     cliente_nombre |-> nombre_completo(cliente),
     total_portfolios |-> Len(cliente.portfolios),
     total_assets |-> Len(get_todos_los_assets(cliente)),
     tickers_unicos |-> Len(unique),
     informes_generados |-> Len(unique),
     errores |-> Len(errs),
     tickers_error |-> errs]

\* the return value of procesar_cliente (lines 592-601)
Stats(cliente, unique, informes, errs) ==
    [cliente_id |-> cliente.user_id,
     cliente_nombre |-> nombre_completo(cliente),
     total_portfolios |-> Len(cliente.portfolios),
     total_assets |-> Len(get_todos_los_assets(cliente)),
     tickers_unicos |-> Len(unique),
     informes_generados |-> Len(informes),
     errores |-> Len(errs),
     tickers_error |-> errs]

(***************************************************************************)
(* check_api_status                                                        *)
(***************************************************************************)
QuoteAnswers ==
    <<Answer("json", [shape |-> "quote"]),
      Answer("json", ErrorObject),
      Answer("json", EmptyBody),
      Answer("conn_error", NoneVal),
      Answer("http_error", NoneVal),
      Answer("bad_json", NoneVal)>>

\* [raised, value]: value holds the status printed for each provider and
\* the boolean returned (apis_ok); the two first probes let an exception
\* that is not a RequestException escape
check_api_status(av, fmp, finnhub, json_caught) ==
    LET av_check == get_alpha_vantage_daily_prices(av, json_caught)
        fmp_check == get_fmp_company_profile(fmp, json_caught)
        finnhub_check == get_finnhub_quote(finnhub)
    IN  IF av_check.raised \/ fmp_check.raised THEN Raises
        ELSE Returned([av |-> av_check.value # NoneVal,
                       fmp |-> fmp_check.value # NoneVal,
                       finnhub |-> finnhub_check,
                       apis_ok |-> /\ av_check.value # NoneVal
                                   /\ fmp_check.value # NoneVal
                                   /\ finnhub_check])

(***************************************************************************)
(* SpecFin: one run of financial_api.main                                  *)
(***************************************************************************)
MaxClients == 2

UserId(i) == "u" \o IntToStr(i)

\* the users the directory may hold: [first_name, last_name, portfolios]
ClientCatalog ==
    { [first_name |-> None, last_name |-> None, portfolios |-> <<>>],
      [first_name |-> "Eva", last_name |-> None, portfolios |-> << <<>> >>],
      [first_name |-> "Ana", last_name |-> "Ruiz", portfolios |-> << <<"AAPL">> >>],
      [first_name |-> "Luis", last_name |-> "",
       portfolios |-> << <<"NVD.F", "NVDA.F">>, <<"NVD.F">> >>],
      \* an asset whose asset_symbol is NULL
      [first_name |-> "Sol", last_name |-> "Paz", portfolios |-> << <<None>>, <<"AAPL">> >>] }

Directory(rows) ==
    [i \in 1..Len(rows) |->
        Cliente(UserId(i), rows[i].first_name, rows[i].last_name, rows[i].portfolios)]

\* lines 629-652
cliente_demo ==
    Cliente("demo_user_001", "Cliente", "Demo", << <<"NVDA", "GOOGL", "AAPL">> >>)

InitFin ==
    /\ fpc = "check_api_status"
    /\ mode \in {"all", "single", "demo"}
    /\ \E rows \in SeqsUpTo(ClientCatalog, MaxClients) :
          /\ mode = "demo" => rows = <<>>
          /\ mode = "single" => Len(rows) <= 1
          /\ db = Directory(rows)
    /\ clientes = <<>>
    /\ cidx = 0
    /\ tickers = <<>>
    /\ tidx = 0
    /\ informes_generados = <<>>
    /\ errores = <<>>
    /\ all_stats = <<>>
    /\ events = <<>>
    /\ requests_json_caught \in BOOLEAN
    /\ NormIdle
    /\ YTIdle
    /\ TickerIdle
    /\ VideoIdle
    /\ OrchIdle

\* A variant that goes on whatever the verification returned.
AfterVerification_Proceeds(apis_ok) == "dispatch"

\* lines 619-621: `if not check_api_status(): ... return`
AfterVerification(apis_ok) == IF apis_ok THEN "dispatch" ELSE "aborted"

\* main, lines 619-621.  The call is outside the try block of main: an
\* exception of a probe ends the process.
CheckApiStatus ==
    /\ fpc = "check_api_status"
    /\ \E av \in Range(TimeSeriesAnswers), fmp \in Range(ProfileAnswers),
          finnhub \in Range(QuoteAnswers) :
          LET status == check_api_status(av, fmp, finnhub, requests_json_caught)
          IN  IF status.raised
              THEN /\ fpc' = "crashed"
                   /\ events' = events
              ELSE /\ fpc' = AfterVerification(status.value.apis_ok)
                   /\ events' = Append(events, [e |-> "check_api_status",
                                                av |-> status.value.av,
                                                fmp |-> status.value.fmp,
                                                finnhub |-> status.value.finnhub,
                                                ok |-> status.value.apis_ok])
    /\ UNCHANGED <<mode, db, clientes, cidx, tickers, tidx, informes_generados,
                   errores, all_stats, notFin>>

\* lines 624-652: the demo client replaces the directory
DemoMode ==
    /\ fpc = "dispatch"
    /\ mode = "demo"
    /\ clientes' = <<cliente_demo>>
    /\ cidx' = 1
    /\ fpc' = "procesar_cliente"
    /\ UNCHANGED <<mode, db, tickers, tidx, informes_generados, errores, all_stats,
                   events, notFin>>

HasAssets(cliente) == get_todos_los_assets(cliente) # <<>>

\* lines 660-678: get_cliente_por_id raises, or returns None, or the client
SingleClientMode ==
    /\ fpc = "dispatch"
    /\ mode = "single"
    /\ events' = Append(events, [e |-> "get_cliente_por_id", user |-> UserId(1)])
    /\ \E db_raises \in BOOLEAN :
          IF db_raises
          THEN /\ fpc' = "fatal"
               /\ UNCHANGED <<clientes, cidx>>
          ELSE IF db = <<>> \/ db[1].portfolios = <<>> \/ ~HasAssets(db[1])
          THEN /\ fpc' = "done"
               /\ UNCHANGED <<clientes, cidx>>
          ELSE /\ clientes' = <<db[1]>>
               /\ cidx' = 1
               /\ fpc' = "procesar_cliente"
    /\ UNCHANGED <<mode, db, tickers, tidx, informes_generados, errores, all_stats,
                   notFin>>

\* lines 683-691: get_clientes_activos raises, or returns the clients
AllClientsMode ==
    /\ fpc = "dispatch"
    /\ mode = "all"
    /\ events' = Append(events, [e |-> "get_clientes_activos"])
    /\ \E db_raises \in BOOLEAN :
          IF db_raises
          THEN /\ fpc' = "fatal"
               /\ UNCHANGED <<clientes, cidx>>
          ELSE IF db = <<>>
          THEN /\ fpc' = "done"
               /\ UNCHANGED <<clientes, cidx>>
          ELSE /\ clientes' = db
               /\ cidx' = 1
               /\ fpc' = "loop"
    /\ UNCHANGED <<mode, db, tickers, tidx, informes_generados, errores, all_stats,
                   notFin>>

\* A variant with `break` in the place of `continue`.
SkipCliente_Break ==
    /\ fpc = "loop"
    /\ cidx <= Len(clientes)
    /\ ~HasAssets(clientes[cidx])
    /\ events' = Append(events, [e |-> "skip", user |-> clientes[cidx].user_id])
    /\ cidx' = Len(clientes) + 1
    /\ UNCHANGED <<fpc, mode, db, clientes, tickers, tidx, informes_generados,
                   errores, all_stats, notFin>>

\* lines 698-701: `if not todos_los_assets: continue`
SkipCliente ==
    /\ fpc = "loop"
    /\ cidx <= Len(clientes)
    /\ ~HasAssets(clientes[cidx])
    /\ events' = Append(events, [e |-> "skip", user |-> clientes[cidx].user_id])
    /\ cidx' = cidx + 1
    /\ UNCHANGED <<fpc, mode, db, clientes, tickers, tidx, informes_generados,
                   errores, all_stats, notFin>>

\* procesar_cliente, lines 514-532.  ', '.join(tickers) raises TypeError
\* when a ticker is None; in the production modes the exception reaches the
\* except clause of main (line 724).
BeginCliente ==
    /\ \/ fpc = "procesar_cliente"
       \/ /\ fpc = "loop"
          /\ cidx <= Len(clientes)
          /\ HasAssets(clientes[cidx])
    /\ LET cliente == clientes[cidx]
       IN  /\ tickers' \in get_todos_los_tickers(cliente)
           /\ events' = events \o
                  <<[e |-> "procesar_cliente", user |-> cliente.user_id],
                    [e |-> "crear_carpeta_cliente", user |-> cliente.user_id]>>
           /\ IF None \in Range(tickers')
              THEN /\ fpc' = "fatal"
                   /\ UNCHANGED <<tidx, informes_generados, errores>>
              ELSE /\ fpc' = "ticker"
                   /\ tidx' = 1
                   /\ informes_generados' = <<>>
                   /\ errores' = <<>>
    /\ UNCHANGED <<mode, db, clientes, cidx, all_stats, notFin>>

\* A variant that pauses after every ticker, the last included.
ProcessTicker_PauseAlways ==
    /\ fpc = "ticker"
    /\ tidx <= Len(tickers)
    /\ \E answers \in TickerScenarios, success \in BOOLEAN :
          LET cliente == clientes[cidx]
              ticker == tickers[tidx]
              report_content == procesar_ticker(ticker, answers, requests_json_caught)
              nombre_archivo == ticker \o "_analisis_financiero.md"
              called == [e |-> "procesar_ticker", user |-> cliente.user_id,
                         ticker |-> ticker, ok |-> report_content # NoneVal]
              uploaded == [e |-> "subir_informe_cliente", user |-> cliente.user_id,
                           archivo |-> nombre_archivo, contenido |-> report_content,
                           ok |-> success]
              pause == <<[e |-> "sleep", s |-> PausaTickers]>>
          IN  IF report_content # NoneVal
              THEN /\ events' = events \o <<called, uploaded>> \o pause
                   /\ IF success
                      THEN /\ informes_generados' =
                                Append(informes_generados,
                                       [ticker |-> ticker, archivo |-> nombre_archivo,
                                        contenido |-> report_content])
                           /\ errores' = errores
                      ELSE /\ errores' = Append(errores, ticker)
                           /\ informes_generados' = informes_generados
              ELSE /\ events' = events \o <<called>> \o pause
                   /\ errores' = Append(errores, ticker)
                   /\ informes_generados' = informes_generados
    /\ tidx' = tidx + 1
    /\ UNCHANGED <<fpc, mode, db, clientes, cidx, tickers, all_stats, notFin>>

\* A variant that takes every upload for a success.
ProcessTicker_IgnoreUpload ==
    /\ fpc = "ticker"
    /\ tidx <= Len(tickers)
    /\ \E answers \in TickerScenarios, success \in BOOLEAN :
          LET cliente == clientes[cidx]
              ticker == tickers[tidx]
              report_content == procesar_ticker(ticker, answers, requests_json_caught)
              nombre_archivo == ticker \o "_analisis_financiero.md"
              called == [e |-> "procesar_ticker", user |-> cliente.user_id,
                         ticker |-> ticker, ok |-> report_content # NoneVal]
              uploaded == [e |-> "subir_informe_cliente", user |-> cliente.user_id,
                           archivo |-> nombre_archivo, contenido |-> report_content,
                           ok |-> success]
              pause == IF tidx < Len(tickers)
                       THEN <<[e |-> "sleep", s |-> PausaTickers]>> ELSE <<>>
          IN  IF report_content # NoneVal
              THEN /\ events' = events \o <<called, uploaded>> \o pause
                   /\ IF TRUE
                      THEN /\ informes_generados' =
                                Append(informes_generados,
                                       [ticker |-> ticker, archivo |-> nombre_archivo,
                                        contenido |-> report_content])
                           /\ errores' = errores
                      ELSE /\ errores' = Append(errores, ticker)
                           /\ informes_generados' = informes_generados
              ELSE /\ events' = events \o <<called>> \o pause
                   /\ errores' = Append(errores, ticker)
                   /\ informes_generados' = informes_generados
    /\ tidx' = tidx + 1
    /\ UNCHANGED <<fpc, mode, db, clientes, cidx, tickers, all_stats, notFin>>

\* One pass of the loop of lines 534-562: procesar_ticker, the upload of
\* the report when there is one, the bookkeeping, the pause.
ProcessTicker ==
    /\ fpc = "ticker"
    /\ tidx <= Len(tickers)
    /\ \E answers \in TickerScenarios, success \in BOOLEAN :
          LET cliente == clientes[cidx]
              ticker == tickers[tidx]
              report_content == procesar_ticker(ticker, answers, requests_json_caught)
              nombre_archivo == ticker \o "_analisis_financiero.md"
              called == [e |-> "procesar_ticker", user |-> cliente.user_id,
                         ticker |-> ticker, ok |-> report_content # NoneVal]
              uploaded == [e |-> "subir_informe_cliente", user |-> cliente.user_id,
                           archivo |-> nombre_archivo, contenido |-> report_content,
                           ok |-> success]
              pause == IF tidx < Len(tickers)
                       THEN <<[e |-> "sleep", s |-> PausaTickers]>> ELSE <<>>
          IN  IF report_content # NoneVal
              THEN /\ events' = events \o <<called, uploaded>> \o pause
                   /\ IF success
                      THEN /\ informes_generados' =
                                Append(informes_generados,
                                       [ticker |-> ticker, archivo |-> nombre_archivo,
                                        contenido |-> report_content])
                           /\ errores' = errores
                      ELSE /\ errores' = Append(errores, ticker)
                           /\ informes_generados' = informes_generados
              ELSE /\ events' = events \o <<called>> \o pause
                   /\ errores' = Append(errores, ticker)
                   /\ informes_generados' = informes_generados
    /\ tidx' = tidx + 1
    /\ UNCHANGED <<fpc, mode, db, clientes, cidx, tickers, all_stats, notFin>>

\* The end of procesar_cliente (lines 565-601) and the return to main:
\* the consolidated report, the statistics, and in the all-clients loop the
\* pause before the next client (lines 704-709).
FinishCliente ==
    /\ fpc = "ticker"
    /\ tidx > Len(tickers)
    /\ \E success \in BOOLEAN :
          LET cliente == clientes[cidx]
              consolidated ==
                  IF GenerarConsolidado(TRUE, informes_generados)
                  THEN <<[e |-> "subir_informe_cliente", user |-> cliente.user_id,
                          archivo |-> "informe_consolidado.md",
                          contenido |-> FinalReport(cliente, informes_generados),
                          ok |-> success]>>
                  ELSE <<>>
              stats == Stats(cliente, tickers, informes_generados, errores)
              returned == <<[e |-> "return", user |-> cliente.user_id, stats |-> stats]>>
          IN  IF mode = "all"
              THEN /\ all_stats' = Append(all_stats, stats)
                   /\ events' = events \o consolidated \o returned \o
                         (IF cidx < Len(clientes)
                          THEN <<[e |-> "sleep", s |-> PausaClientes]>> ELSE <<>>)
                   /\ cidx' = cidx + 1
                   /\ fpc' = "loop"
              ELSE /\ events' = events \o consolidated \o returned
                   /\ fpc' = "done"
                   /\ UNCHANGED <<all_stats, cidx>>
    /\ UNCHANGED <<mode, db, clientes, tickers, tidx, informes_generados, errores,
                   notFin>>

\* lines 711-722: the loop is over
FinishAllClients ==
    /\ fpc = "loop"
    /\ cidx > Len(clientes)
    /\ fpc' = "done"
    /\ UNCHANGED <<mode, db, clientes, cidx, tickers, tidx, informes_generados,
                   errores, all_stats, events, notFin>>

NextFin ==
    \/ CheckApiStatus
    \/ DemoMode
    \/ SingleClientMode
    \/ AllClientsMode
    \/ SkipCliente
    \/ BeginCliente
    \/ ProcessTicker
    \/ FinishCliente
    \/ FinishAllClients

SpecFin == InitFin /\ [][NextFin]_vars

(***************************************************************************)
(* config.py: the module-level statements run when config is imported      *)
(***************************************************************************)
\* The process environment (after load_dotenv): each key is "unset", set to
\* the empty string ("empty") or set to a value ("set").
EnvKeys ==
    {"GOOGLE_API_KEY", "YOUTUBE_API_KEY", "GEMINI_API_KEY", "SUPABASE_URL",
     "SUPABASE_ANON_KEY", "CONSULTA_BUSQUEDA"}

AllSet == [k \in EnvKeys |-> "set"]

\* the environments of the model: every key set, or one key unset or empty
Environments ==
    {AllSet} \cup { [AllSet EXCEPT ![k] = v] : k \in EnvKeys, v \in {"unset", "empty"} }

\* the default of CONSULTA_BUSQUEDA (line 60 of config.py)
ConsultaPorDefecto == "PRE MERCADO |"

\* the value a key is set to in the environment
EnvValue(var_name) ==
    IF var_name = "CONSULTA_BUSQUEDA" THEN ConsultaPorDefecto ELSE "<" \o var_name \o ">"

\* os.getenv(var_name, default_value)
GetEnv(env, var_name, default_value) ==
    CASE env[var_name] = "unset" -> default_value
      [] env[var_name] = "empty" -> ""
      [] env[var_name] = "set"   -> EnvValue(var_name)

\* get_env_var: the value, or ValueError when the variable is required and
\* its value is falsy
get_env_var(env, var_name, default_value, required) ==
    LET value == GetEnv(env, var_name, default_value)
    IN  IF required /\ Falsy(value) THEN Raises ELSE Returned(value)

\* `get_env_var(var, required=False) or GOOGLE_API_KEY`
OrGoogleKey(env, var_name, google) ==
    LET own == get_env_var(env, var_name, None, FALSE).value
    IN  IF Falsy(own) THEN google ELSE own

\* the required keys, in the order config.py reads them
RequiredKeys == <<"GOOGLE_API_KEY", "SUPABASE_URL", "SUPABASE_ANON_KEY">>

\* the first required key whose get_env_var raises, None if none does
FirstMissing(env) ==
    IF \E i \in 1..Len(RequiredKeys) : get_env_var(env, RequiredKeys[i], None, TRUE).raised
    THEN RequiredKeys[CHOOSE i \in 1..Len(RequiredKeys) :
             /\ get_env_var(env, RequiredKeys[i], None, TRUE).raised
             /\ \A j \in 1..(i - 1) : ~get_env_var(env, RequiredKeys[j], None, TRUE).raised]
    ELSE None

\* the module-level names of config.py after a successful import
ImportConfig(env) ==
    LET google == get_env_var(env, "GOOGLE_API_KEY", None, TRUE).value
    IN  [GOOGLE_API_KEY    |-> google,
         YOUTUBE_API_KEY   |-> OrGoogleKey(env, "YOUTUBE_API_KEY", google),
         GEMINI_API_KEY    |-> OrGoogleKey(env, "GEMINI_API_KEY", google),
         SUPABASE_URL      |-> get_env_var(env, "SUPABASE_URL", None, TRUE).value,
         SUPABASE_ANON_KEY |-> get_env_var(env, "SUPABASE_ANON_KEY", None, TRUE).value,
         CONSULTA_BUSQUEDA |->
             get_env_var(env, "CONSULTA_BUSQUEDA", ConsultaPorDefecto, FALSE).value]

\* critical_vars of validate_configuration
CriticalVars ==
    <<"GOOGLE_API_KEY", "YOUTUBE_API_KEY", "GEMINI_API_KEY", "SUPABASE_URL",
      "SUPABASE_ANON_KEY">>

\* validate_configuration: False when a critical value is falsy
validate_configuration(cfg) ==
    \A i \in 1..Len(CriticalVars) : ~Falsy(cfg[CriticalVars[i]])

(***************************************************************************)
(* SpecVideo: one run of api_youtube.main                                  *)
(***************************************************************************)
ARCHIVO_PREMERCADO == "informe_video_premercado.md"
ARCHIVO_VISION_MERCADO == "vision de mercado.md"

\* The two emoji that open the weekly titles lie outside TLA+'s strings and
\* are written "@" and "%"; like them, neither is alphanumeric.
VISION_SEMANAL_QUERY == "@ EN VIVO. VISI+N semanal de MERCADOS"
CIERRE_SEMANAL_QUERY == "% EN VIVO. Cierre SEMANAL de los MERCADOS"

\* datetime.weekday(): 0 is Monday, 6 is Sunday
Weekdays == 0..6
VISION_SEMANAL_DIAS == {0, 4}

\* A variant that also runs the weekly block at the weekend.
es_dia_vision_semanal_Weekend(weekday) == weekday \in {0, 4, 5, 6}

\* lines 309-312
es_dia_vision_semanal(weekday) == weekday \in VISION_SEMANAL_DIAS

\* lines 371-392
configuraciones_semana ==
    << [titulo |-> VISION_SEMANAL_QUERY,
        consultas |-> << VISION_SEMANAL_QUERY,
                         "EN VIVO. VISI+N semanal de los MERCADOS",
                         "VISI+N semanal de MERCADOS",
                         "vision semanal mercados" >>],
       [titulo |-> CIERRE_SEMANAL_QUERY,
        consultas |-> << CIERRE_SEMANAL_QUERY,
                         "EN VIVO. Cierre SEMANAL de los MERCADOS",
                         "Cierre SEMANAL de los MERCADOS",
                         "cierre semanal mercados" >>] >>

\* What the search provider answers to a weekly query during a run of
\* main: a transport error, an empty result set, or a video.
MainResponses ==
    { [kind |-> "exception", items |-> <<>>],
      [kind |-> "ok", items |-> <<>>],
      [kind |-> "ok", items |-> << [videoId |-> "v2", title |-> "Visi'n SEMANAL de mercados"] >>] }

\* What it answers to the daily pre-market query: also an HTTP error, a
\* body that is no JSON object and an error payload without "errors" list.
PremercadoResponses ==
    MainResponses
    \cup { [kind |-> "http_error", items |-> <<>>],
           [kind |-> "malformed", items |-> <<>>],
           [kind |-> "error_payload", items |-> <<>>, error |-> "no_errors_key"] }

\* the text Gemini returns for a video (response.text)
Analysis(url) == " Analisis de " \o url \o "\n"

\* analizar_video_con_gemini: the text, or None when generate_content (or
\* response.text) raised
analizar_video_con_gemini(url, gemini_ok) == IF gemini_ok THEN Analysis(url) ELSE None

\* The directories of the model: vclientes[i] is TRUE when the storage
\* accepts an upload for client i, FALSE when the upload fails (subir_texto
\* catches the exception and returns False).
\* In the model only the first client's upload may fail.
VideoDirectories ==
    { d \in SeqsUpTo(BOOLEAN, MaxClients) : \A i \in 2..Len(d) : d[i] }

\* subir_informe_para_clientes: the uploads attempted, in order
UploadsFor(clients, contenido, nombre_archivo) ==
    [i \in 1..Len(clients) |->
        [e |-> "subir_texto", cliente |-> UserId(i), archivo |-> nombre_archivo,
         contenido |-> contenido, exito |-> clients[i]]]

\* A variant that stops at the first upload that fails.
subir_informe_para_clientes_StopAtFailure(clients, contenido, nombre_archivo) ==
    LET all == UploadsFor(clients, contenido, nombre_archivo)
    IN  IF \E i \in 1..Len(all) : ~all[i].exito
        THEN SubSeq(all, 1, CHOOSE i \in 1..Len(all) :
                                /\ ~all[i].exito
                                /\ \A j \in 1..(i - 1) : all[j].exito)
        ELSE all

\* lines 249-286: nothing is uploaded for an empty list (`if not clientes`);
\* otherwise one subir_texto per client, whatever the earlier ones returned
subir_informe_para_clientes(clients, contenido, nombre_archivo) ==
    IF clients = <<>> THEN <<>> ELSE UploadsFor(clients, contenido, nombre_archivo)

\* exitosos and fallidos of subir_informe_para_clientes
Exitosos(uploads) == Cardinality({ i \in 1..Len(uploads) : uploads[i].exito })
Fallidos(uploads) == Cardinality({ i \in 1..Len(uploads) : ~uploads[i].exito })

RECURSIVE LineasVision(_, _)
\* the loop of crear_informe_vision_mercado from resultado number indice on
LineasVision(res, indice) ==
    IF indice > Len(res) THEN <<>>
    ELSE << "## " \o res[indice].titulo,
            "- Video analizado: " \o res[indice].url,
            "",
            StrStrip(res[indice].analisis) >>
         \o (IF indice < Len(res) THEN << "", "---", "" >> ELSE <<>>)
         \o LineasVision(res, indice + 1)

\* A variant that writes the delimiter after every section, the last included.
crear_informe_vision_mercado_TrailingDelimiter(res) ==
    StrStrip(StrJoin("\n", << "# Informe Vision de Mercado", "" >> \o LineasVision(res, 1)
                           \o (IF res = <<>> THEN <<>> ELSE << "", "---", "" >>)))

\* lines 289-306
crear_informe_vision_mercado(res) ==
    StrStrip(StrJoin("\n", << "# Informe Vision de Mercado", "" >> \o LineasVision(res, 1)))

InitVideo ==
    /\ vpc = "import"
    /\ config = NoneVal
    /\ missing = {}
    /\ vclientes = <<>>
    /\ ultimo_intento = FALSE
    /\ widx = 0
    /\ resultados = <<>>
    /\ vevents = <<>>
    /\ NormIdle
    /\ YTIdle
    /\ TickerIdle
    /\ FinIdle
    /\ OrchIdle
    /\ requests_json_caught = TRUE

\* A variant that goes on to the directory whatever the import found.
LoadConfiguration_Unchecked ==
    /\ vpc = "import"
    /\ \E env \in Environments :
          /\ missing' = (IF FirstMissing(env) # None THEN {FirstMissing(env)} ELSE {})
          /\ config' = ImportConfig(AllSet)
          /\ vpc' = "directory"
    /\ UNCHANGED <<vclientes, ultimo_intento, widx, resultados, vevents, ytVars, notVideo>>

\* `from config import ...` (api_youtube.py lines 10-18, through database):
\* config.py raises ValueError for the first required key that is missing
LoadConfiguration ==
    /\ vpc = "import"
    /\ \E env \in Environments :
          IF FirstMissing(env) # None
          THEN /\ missing' = {FirstMissing(env)}
               /\ vpc' = "import_error"
               /\ UNCHANGED config
          ELSE /\ config' = ImportConfig(env)
               /\ vpc' = "validate"
               /\ UNCHANGED missing
    /\ UNCHANGED <<vclientes, ultimo_intento, widx, resultados, vevents, ytVars, notVideo>>

\* what main does after validate_configuration returned `valid`
AfterValidation(valid) == IF valid THEN "directory" ELSE "exit_1"

\* lines 318-320: `if not validate_configuration(): raise SystemExit(1)`
ValidateConfiguration ==
    /\ vpc = "validate"
    /\ vpc' = AfterValidation(validate_configuration(config))
    /\ UNCHANGED <<config, missing, vclientes, ultimo_intento, widx, resultados, vevents,
                   ytVars, notVideo>>

\* line 322: clientes = get_clientes_activos(), which raises when the
\* directory cannot be read; lines 325-327 find the keys present
GetClientes ==
    /\ vpc = "directory"
    /\ \/ /\ vpc' = "crashed"
          /\ vevents' = Append(vevents, [e |-> "get_clientes_activos", ok |-> FALSE])
          /\ UNCHANGED vclientes
       \/ \E d \in VideoDirectories :
             /\ vclientes' = d
             /\ vevents' = Append(vevents, [e |-> "get_clientes_activos", ok |-> TRUE])
             /\ vpc' = (IF config.YOUTUBE_API_KEY = None \/ config.GEMINI_API_KEY = None
                        THEN "exit_1" ELSE "premercado")
    /\ UNCHANGED <<config, missing, ultimo_intento, widx, resultados, ytVars, notVideo>>

\* lines 332-361: the daily pre-market step
Premercado ==
    /\ vpc = "premercado"
    /\ \E response \in PremercadoResponses, gemini_ok \in BOOLEAN :
          LET consulta_premercado ==
                  IF Falsy(config.CONSULTA_BUSQUEDA) THEN "" ELSE config.CONSULTA_BUSQUEDA
              url      == buscar_video_reciente_en_canal(consulta_premercado, response)
              search   == [e |-> "search", query |-> consulta_premercado,
                           failed |-> TryBlock(consulta_premercado, response).exc # None,
                           url |-> url]
              analisis == analizar_video_con_gemini(url, gemini_ok)
              analyze  == [e |-> "analizar_video", url |-> url, analisis |-> analisis]
          IN  IF url = Escapes
              THEN /\ vpc' = "crashed"
                   /\ vevents' = Append(vevents, search)
                   /\ UNCHANGED ultimo_intento
              ELSE IF Falsy(url)
              THEN /\ gemini_ok
                   /\ vpc' = "weekday"
                   /\ vevents' = Append(vevents, search)
                   /\ UNCHANGED ultimo_intento
              ELSE /\ vpc' = "weekday"
                   /\ ultimo_intento' = TRUE
                   /\ vevents' =
                          vevents \o <<search, analyze>>
                          \o (IF Falsy(analisis) THEN <<>>
                              ELSE subir_informe_para_clientes(vclientes, analisis,
                                                               ARCHIVO_PREMERCADO))
    /\ UNCHANGED <<config, missing, vclientes, widx, resultados, ytVars, notVideo>>

\* lines 363-365: `if not es_dia_vision_semanal(): return`
CheckWeekday ==
    /\ vpc = "weekday"
    /\ \E weekday \in Weekdays :
          /\ vevents' = Append(vevents, [e |-> "weekday", weekday |-> weekday])
          /\ IF es_dia_vision_semanal(weekday)
             THEN vpc' = "weekly" /\ widx' = 1
             ELSE vpc' = "done" /\ UNCHANGED widx
    /\ UNCHANGED <<config, missing, vclientes, ultimo_intento, resultados, ytVars, notVideo>>

\* lines 396-404: esperar_intervalo, then the call of
\* buscar_video_reciente_con_fallback with the queries of the configuration
BeginFallback ==
    /\ vpc = "weekly"
    /\ widx <= Len(configuraciones_semana)
    /\ ypc = "idle"
    /\ ypc' = "loop"
    /\ consultas' = configuraciones_semana[widx].consultas
    /\ provider' \in [1..Len(configuraciones_semana[widx].consultas) -> MainResponses]
    /\ yidx' = 1
    /\ searches' = <<>>
    /\ yresult' = None
    /\ ynotice' = FALSE
    /\ vevents' = Append(vevents, [e |-> "esperar_intervalo", segundos |-> 30,
                                   espera |-> ultimo_intento])
    /\ UNCHANGED <<vpc, config, missing, vclientes, ultimo_intento, widx, resultados, notVideo>>

\* lines 402-421: the value returned by the fallback search, the analysis
\* of the video found; the locals of the call are gone
AnalyzeWeekly ==
    /\ vpc = "weekly"
    /\ ypc \in {"done", "raised"}
    /\ ypc' = "idle"
    /\ consultas' = <<>>
    /\ provider' = <<>>
    /\ yidx' = 0
    /\ searches' = <<>>
    /\ yresult' = None
    /\ ynotice' = FALSE
    /\ \E gemini_ok \in BOOLEAN :
          LET titulo   == configuraciones_semana[widx].titulo
              found    == [e |-> "fallback", titulo |-> titulo, url |-> yresult]
              analisis == analizar_video_con_gemini(yresult, gemini_ok)
              analyze  == [e |-> "analizar_video", url |-> yresult, analisis |-> analisis]
          IN  IF ypc = "raised"
              THEN /\ vpc' = "crashed"
                   /\ vevents' = Append(vevents, found)
                   /\ UNCHANGED <<ultimo_intento, widx, resultados>>
              ELSE IF Falsy(yresult)
              \* `if not url_video: continue`
              THEN /\ gemini_ok
                   /\ vevents' = Append(vevents, found)
                   /\ widx' = widx + 1
                   /\ UNCHANGED <<vpc, ultimo_intento, resultados>>
              ELSE /\ vevents' = vevents \o <<found, analyze>>
                   /\ ultimo_intento' = TRUE
                   /\ widx' = widx + 1
                   /\ resultados' =
                          IF Falsy(analisis) THEN resultados
                          ELSE Append(resultados, [titulo |-> titulo, url |-> yresult,
                                                   analisis |-> analisis])
                   /\ UNCHANGED vpc
    /\ UNCHANGED <<config, missing, vclientes, notVideo>>

\* lines 423-428: the weekly report, uploaded for every client
FinishWeekly ==
    /\ vpc = "weekly"
    /\ widx > Len(configuraciones_semana)
    /\ vpc' = "done"
    /\ vevents' =
           IF resultados = <<>> THEN vevents
           ELSE vevents \o subir_informe_para_clientes(
                               vclientes, crear_informe_vision_mercado(resultados),
                               ARCHIVO_VISION_MERCADO)
    /\ UNCHANGED <<config, missing, vclientes, ultimo_intento, widx, resultados,
                   ytVars, notVideo>>

\* the steps of buscar_video_reciente_con_fallback inside main leave the
\* variables of main alone; no configured query is empty
NextVideo ==
    \/ LoadConfiguration
    \/ ValidateConfiguration
    \/ GetClientes
    \/ Premercado
    \/ CheckWeekday
    \/ BeginFallback
    \/ FallbackSearch
    \/ FallbackExhausted
    \/ AnalyzeWeekly
    \/ FinishWeekly

SpecVideo == InitVideo /\ [][NextVideo]_vars

(***************************************************************************)
(* SpecOrch: one run of orchestrator.main                                  *)
(***************************************************************************)
\* lines 86-89
steps == <<"api_youtube", "financial_api">>

\* the return codes of a script that ran to its end: 0, 1 (SystemExit(1) or
\* an uncaught exception), 2, or the negative number of the signal that
\* killed it
ReturnCodes == {0, 1, 2, -9}

\* What becomes of subprocess.run: the script completes with a return
\* code, runs longer than the timeout, or cannot be started.
ScriptOutcomes ==
    { [how |-> "completed", returncode |-> c] : c \in ReturnCodes }
    \cup { [how |-> "timeout", returncode |-> 0], [how |-> "not_started", returncode |-> 0] }

\* run_script (lines 38-54): (returncode, stdout, stderr)
run_script(script, outcome) ==
    CASE outcome.how = "completed" ->
             [code |-> outcome.returncode, out |-> "stdout of " \o script,
              err |-> "stderr of " \o script]
      [] outcome.how = "timeout" ->
             [code |-> 1, out |-> "",
              err |-> "Timeout: " \o script \o " tardo mas de 5 minutos en ejecutarse"]
      [] outcome.how = "not_started" ->
             [code |-> 1, out |-> "", err |-> "Error al ejecutar " \o script]

\* What the file system does to log_run: the log is written, the file
\* cannot be opened or written, the directory cannot be created.
LogOutcomes == {"written", "open_fails", "makedirs_fails"}

\* log_run (lines 61-74): os.makedirs is outside the try block, so its
\* OSError leaves log_run; the exceptions of open and write give ""
log_run(step, disk) ==
    CASE disk = "written"        -> Returned("logs/" \o step \o ".log")
      [] disk = "open_fails"     -> Returned("")
      [] disk = "makedirs_fails" -> Raises

InitOrch ==
    /\ opc = "run_script"
    /\ step_idx = 1
    /\ code = 0
    /\ log_file = ""
    /\ overall_success = TRUE
    /\ exit_status = None
    /\ ran = <<>>
    /\ NormIdle
    /\ YTIdle
    /\ TickerIdle
    /\ FinIdle
    /\ VideoIdle
    /\ requests_json_caught = TRUE

\* line 94: code, out, err = run_script(script)
RunScript ==
    /\ opc = "run_script"
    /\ step_idx <= Len(steps)
    /\ \E outcome \in ScriptOutcomes :
          LET r == run_script(steps[step_idx] \o ".py", outcome)
          IN  /\ code' = r.code
              /\ ran' = Append(ran, [step |-> steps[step_idx], how |-> outcome.how,
                                      code |-> r.code, err |-> r.err])
    /\ opc' = "log_run"
    /\ UNCHANGED <<step_idx, log_file, overall_success, exit_status, notOrch>>

\* lines 95-97: log_file = log_run(...).  An exception of log_run is not
\* caught by main: the interpreter ends with status 1.
LogRun ==
    /\ opc = "log_run"
    /\ \E disk \in LogOutcomes :
          LET written == log_run(steps[step_idx], disk)
          IN  IF written.raised
              THEN /\ opc' = "crashed"
                   /\ exit_status' = 1
                   /\ log_file' = log_file
              ELSE /\ opc' = "check"
                   /\ log_file' = written.value
                   /\ exit_status' = exit_status
    /\ UNCHANGED <<step_idx, code, overall_success, ran, notOrch>>

\* lines 98-102: `if code != 0: overall_success = False`, then the next
\* step
CheckCode ==
    /\ opc = "check"
    /\ overall_success' = (IF code # 0 THEN FALSE ELSE overall_success)
    /\ step_idx' = step_idx + 1
    /\ opc' = (IF step_idx < Len(steps) THEN "run_script" ELSE "exit")
    /\ UNCHANGED <<code, log_file, exit_status, ran, notOrch>>

\* lines 104-110: sys.exit(0) or sys.exit(1)
Exit ==
    /\ opc = "exit"
    /\ exit_status' = (IF overall_success THEN 0 ELSE 1)
    /\ opc' = "exited"
    /\ UNCHANGED <<step_idx, code, log_file, overall_success, ran, notOrch>>

NextOrch == RunScript \/ LogRun \/ CheckCode \/ Exit

SpecOrch == InitOrch /\ [][NextOrch]_vars

(***************************************************************************)
(* Claims about normalizar_ticker                                          *)
(***************************************************************************)
\* C1: normalizar_ticker is idempotent: for every raw ticker x,
\* normalizar_ticker(normalizar_ticker(x)) = normalizar_ticker(x), also for
\* symbols with several market suffixes or a table symbol followed by a
\* suffix ('AAPL.DE.F', 'BTCUSD.F').
C1_Idempotent == npc = "twice" => norm2 = norm1

\* C11: for every raw ticker that is a key of the override, cryptocurrency
\* or commodity table, normalizar_ticker returns the value that table maps
\* it to, the override table being consulted first; in particular
\* NVD.F -> NVDA, BTCUSD -> BTC-USD, AAPL.DE -> AAPL and MSFT -> MSFT.
C11_TableLookup ==
    npc # "in" =>
        /\ raw \in DOMAIN specific_map => norm1 = specific_map[raw]
        /\ raw \in DOMAIN crypto_map \ DOMAIN specific_map => norm1 = crypto_map[raw]
        /\ raw \in DOMAIN commodity_map \ (DOMAIN specific_map \cup DOMAIN crypto_map)
              => norm1 = commodity_map[raw]
        /\ raw = "NVD.F" => norm1 = "NVDA"
        /\ raw = "BTCUSD" => norm1 = "BTC-USD"
        /\ raw = "AAPL.DE" => norm1 = "AAPL"
        /\ raw = "MSFT" => norm1 = "MSFT"

\* C11 witness: a key of the override table that also ends with a market
\* suffix has been normalized to its override
C11_Witness ==
    /\ npc = "once"
    /\ raw = "GOOG.F"
    /\ raw \in DOMAIN specific_map
    /\ norm1 = "GOOGL"

\* C12: normalizar_ticker is case-insensitive: for every raw ticker string
\* x, normalizar_ticker(x) = normalizar_ticker(x.lower()).
C12_CaseInsensitive == npc = "lower" => norm_lower = norm1

\* the part of C12 the code has: a raw ticker of ASCII letters and its
\* lower-cased form are normalized to the same symbol
C12_AsciiTicker ==
    /\ npc = "lower"
    /\ raw = "BTCUSD"
    /\ norm1 = "BTC-USD"
    /\ norm_lower = norm1

\* C13: normalizar_ticker applied to the empty string returns the empty
\* string and applied to None returns None (the input unchanged); it does
\* not raise.
C13_FalsyUnchanged == (npc # "in" /\ raw \in {"", None}) => norm1 = raw

\* C13 witness: None has been normalized
C13_Witness ==
    /\ npc = "once"
    /\ raw = None
    /\ norm1 = None

\* the trimmed upper-cased symbol of a raw ticker
Symbol(x) == StrUpper(StrStrip(x))

\* s without its last n characters
DropLast(s, n) == SubSeq(s, 1, Len(s) - n)

\* C20: for a symbol that is in none of the three tables and ends with a
\* market suffix, normalizar_ticker returns the trimmed upper-cased symbol
\* with that trailing suffix stripped and every other character kept; a
\* symbol matching no rule is returned trimmed and upper-cased.
C20_TrailingSuffixStripped ==
    (npc # "in" /\ ~Falsy(raw) /\ Symbol(raw) \notin TableKeys) =>
        IF \E i \in 1..Len(market_suffixes) : EndsWith(Symbol(raw), market_suffixes[i][1])
        THEN \E i \in 1..Len(market_suffixes) :
                /\ EndsWith(Symbol(raw), market_suffixes[i][1])
                /\ norm1 = DropLast(Symbol(raw), Len(market_suffixes[i][1]))
        ELSE norm1 = Symbol(raw)

\* the part of C20 the code has: a symbol holding the suffix text once, at
\* its end, loses exactly that suffix
C20_SingleSuffix ==
    /\ npc = "once"
    /\ raw = " AAPL.DE "
    /\ norm1 = "AAPL"

(***************************************************************************)
(* Claims about the video search                                           *)
(***************************************************************************)
\* the normalized title of item k of the answer to query i contains the
\* normalized query as a substring
\* the normalized form of every title and query of the model
Normalized ==
    [texto \in Queries \cup { v.title : v \in Videos } |-> limpiar_texto_busqueda(texto)]

\* the normalized title of item k of the answer to query i contains the
\* normalized query
ItemMatches(i, k) ==
    Contains(Normalized[provider[i].items[k].title], Normalized[consultas[i]])

NoTitleMatch(i) == \A k \in 1..Len(provider[i].items) : ~ItemMatches(i, k)

HasTitleMatch(i) == \E k \in 1..Len(provider[i].items) : ItemMatches(i, k)

\* the URL of the first item of the answer to query i whose title matches
IsFirstMatchUrl(i, url) ==
    \E k \in 1..Len(provider[i].items) :
        /\ ItemMatches(i, k)
        /\ \A j \in 1..(k - 1) : ~ItemMatches(i, j)
        /\ url = VideoUrl(provider[i].items[k].videoId)

TwoQueries ==
    /\ ypc = "done"
    /\ Len(consultas) = 2
    /\ consultas[1] # ""
    /\ consultas[2] # ""

\* C3 (as stated): with queries [Q1, Q2], when the search for Q1 returns no
\* item whose normalized title contains normalized Q1 (its result set may be
\* non-empty) and the search for Q2 returns an item whose title matches Q2,
\* buscar_video_reciente_con_fallback returns the URL of Q2's matching item.
C3_Original ==
    (TwoQueries /\ NoTitleMatch(1) /\ HasTitleMatch(2)) => IsFirstMatchUrl(2, yresult)

\* C3 (amended): in that situation the URL of Q2's matching item is returned
\* when the search for Q1 returned no item at all (an empty result set, an
\* error payload or a failed request); when Q1's result set is non-empty and
\* holds no title match, the URL of Q1's most recent item is returned and Q2
\* is not searched.
C3_Amended ==
    (TwoQueries /\ NoTitleMatch(1) /\ HasTitleMatch(2)) =>
        IF provider[1].items = <<>>
        THEN IsFirstMatchUrl(2, yresult) /\ searches = <<1, 2>>
        ELSE yresult = VideoUrl(provider[1].items[1].videoId) /\ searches = <<1>>

\* C3 witness: Q1's search found nothing, Q2's search found a matching item
\* behind a more recent one that does not match, and its URL was returned.
C3_Witness ==
    /\ TwoQueries
    /\ provider[1] = [kind |-> "ok", items |-> <<>>]
    /\ Len(provider[2].items) = 2
    /\ ~ItemMatches(2, 1)
    /\ ItemMatches(2, 2)
    /\ yresult = VideoUrl(provider[2].items[2].videoId)

\* C7: buscar_video_reciente_en_canal returns the URL of the first item (in
\* provider order) whose normalized title contains the normalized query,
\* even when a more recent item that does not match precedes it.  Stated of
\* the search that produced the result of the fallback loop.
C7_FirstTitleMatch ==
    (ypc = "done" /\ searches # <<>>) =>
        LET i == searches[Len(searches)]
        IN  HasTitleMatch(i) => IsFirstMatchUrl(i, yresult)

\* C7 witness: the most recent item does not match, the second does, and the
\* second item's URL is the result.
C7_Witness ==
    /\ ypc = "done"
    /\ searches = <<1>>
    /\ Len(provider[1].items) = 2
    /\ ~ItemMatches(1, 1)
    /\ ItemMatches(1, 2)
    /\ yresult = VideoUrl(provider[1].items[2].videoId)
    /\ yresult # VideoUrl(provider[1].items[1].videoId)


\* the answer to query i has zero items or is an error payload
NothingToReturn(i) ==
    \/ provider[i].kind = "error_payload"
    \/ provider[i].kind = "ok" /\ provider[i].items = <<>>

\* the k-th search of the run returned None: no exception left it and no
\* URL came out of it (after a None the loop goes on, or ends with None)
SearchReturnedNone(k) ==
    k = Len(searches) => ypc # "raised" /\ (ypc = "done" => yresult = None)

\* C14: buscar_video_reciente_en_canal returns None and does not raise when
\* the provider's response has zero items or carries an error payload,
\* whatever the shape of that payload.
C14_NotFoundOnEmptyOrError ==
    \A k \in 1..Len(searches) : NothingToReturn(searches[k]) => SearchReturnedNone(k)

\* C14 witness: the only query was answered by an error payload whose
\* "errors" list is empty, and the result is None
C14_Witness ==
    /\ ypc = "done"
    /\ searches = <<1>>
    /\ provider[1].kind = "error_payload"
    /\ provider[1].error = "empty_errors"
    /\ yresult = None

\* C19: when the result set is non-empty and no normalized title contains
\* the normalized query, buscar_video_reciente_en_canal returns the URL of
\* the most recent item (the first of the result set); a non-empty result
\* set never gives None.
C19_MostRecentWhenNoMatch ==
    \A k \in 1..Len(searches) :
        LET i == searches[k]
        IN  (provider[i].kind = "ok" /\ provider[i].items # <<>>) =>
                /\ k = Len(searches)
                /\ ypc = "done"
                /\ yresult # None
                /\ NoTitleMatch(i) => yresult = VideoUrl(provider[i].items[1].videoId)

\* C19 witness: two items, neither title matches the query, the first
\* item's URL is the result
C19_Witness ==
    /\ ypc = "done"
    /\ searches = <<1>>
    /\ Len(provider[1].items) = 2
    /\ NoTitleMatch(1)
    /\ yresult = VideoUrl(provider[1].items[1].videoId)

\* what the k-th search of the run returned
SearchResult(k) ==
    buscar_video_reciente_en_canal(consultas[searches[k]], provider[searches[k]])

\* C22: buscar_video_reciente_con_fallback issues the searches in the order
\* of the query list, issues no search after the first query that returns a
\* URL, returns None only when every (non-empty) query returned None, and
\* prints the 'alternative query' notice exactly when the query that
\* succeeded is not the first of the list.
C22_OrderedShortCircuit ==
    \* in list order, each query at most once
    /\ \A k \in 1..(Len(searches) - 1) : searches[k] < searches[k + 1]
    \* a search that returned a URL is the last one, and its URL the result
    /\ \A k \in 1..Len(searches) :
           ~Falsy(SearchResult(k)) =>
               /\ k = Len(searches)
               /\ ypc = "done"
               /\ yresult = SearchResult(k)
    /\ (ypc = "done" /\ yresult # None) =>
           searches # <<>> /\ yresult = SearchResult(Len(searches))
    \* None only after every query was searched and returned None
    /\ (ypc = "done" /\ yresult = None) =>
           /\ \A i \in 1..Len(consultas) :
                  ~Falsy(consultas[i]) => \E k \in 1..Len(searches) : searches[k] = i
           /\ \A k \in 1..Len(searches) : SearchResult(k) = None
    \* the notice
    /\ ynotice <=> (/\ ypc = "done"
                    /\ yresult # None
                    /\ searches[Len(searches)] > 1)

\* C22 witness: the first query returned None, the second a URL, the notice
\* was printed
C22_Witness ==
    /\ ypc = "done"
    /\ Len(consultas) = 2
    /\ searches = <<1, 2>>
    /\ SearchResult(1) = None
    /\ yresult = SearchResult(2)
    /\ yresult # None
    /\ ynotice

(***************************************************************************)
(* Claims about procesar_ticker and generate_markdown_report               *)
(***************************************************************************)
\* C5: in procesar_ticker a provider-level failure of one facet (HTTP
\* error, empty payload, malformed schema or JSON) makes only that facet
\* absent: when the call has returned and some facet's provider failed, all
\* eight facets were requested and a report was returned unless rendering
\* itself raised.
C5_OtherFacetsStillFetched ==
    (tpc = "done" /\ tfailed # {} /\ traised # "render")
        => /\ Len(requested) = Len(Facets)
           /\ tresult # NoneVal

\* the case of C5 that the code handles: a failed facet is None in the
\* bundle and the report is returned
C5_DegradedFacet ==
    /\ tpc = "done"
    /\ tfailed # {}
    /\ tresult # NoneVal
    /\ \A f \in tfailed : bundle[f] = NoneVal \/ IsEmptyDF(bundle[f])

\* C6: generate_markdown_report never raises, whatever facets are present
\* or absent.
C6_RenderNeverRaises == traised # "render"

\* the case of C6 that the code handles: profile present with a numeric
\* market capitalisation, every price series absent
C6_ProfileWithoutPrices ==
    /\ tpc = "done"
    /\ tresult # NoneVal
    /\ bundle["profile"] # NoneVal
    /\ \A f \in {"daily_prices_av", "intraday_prices_av", "daily_prices_yf"} :
          bundle[f] = NoneVal
    /\ InSeq(NoDailyAV, tresult.chunks)
    /\ InSeq(NoIntradayAV, tresult.chunks)
    /\ InSeq(NoDailyYF, tresult.chunks)
    /\ InSeq("* **Capitalizacion de Mercado:** $1,234,567.00\n", tresult.chunks)

\* the call fetched its eight facets and went on to render the report
Rendered == tpc = "done" /\ Len(requested) = Len(Facets) /\ traised \in {None, "render"}

\* the market capitalisation of the profile in the bundle, 'N/A' by default
MarketCap == DictGet(bundle["profile"].fields.mktCap, NA)

\* C21: a currency field of a present profile whose value is missing or not
\* a number is rendered as 'N/A' and rendering completes: with a profile
\* whose market capitalisation is missing or null (and whose description is
\* a string) the profile section is produced and holds the line
\* "Capitalización de Mercado: $N/A".
C21_MissingCurrencyIsNA ==
    (/\ Rendered
     /\ bundle["profile"] # NoneVal
     /\ MarketCap.t # "num"
     /\ DictGet(bundle["profile"].fields.description, NA).t = "str")
        => LET section == ProfileSection(bundle["profile"])
           IN  /\ ~section.raised
               /\ InSeq("* **Capitalizacion de Mercado:** $N/A\n", section.value)

\* the case of C21 that the code handles: a numeric market capitalisation
\* is written with thousands separators and two decimals, and the price
\* as it is
C21_NumericCurrency ==
    /\ Rendered
    /\ bundle["profile"] # NoneVal
    /\ MarketCap = Num(1234567)
    /\ traised = None
    /\ tresult # NoneVal
    /\ LET section == ProfileSection(bundle["profile"])
       IN  /\ ~section.raised
           /\ section.value[6] = "* **Capitalizacion de Mercado:** $1,234,567.00\n"
           /\ section.value[8] = "* **Ultimo Precio de Cierre (FMP):** $120\n"

\* C23: there is no retry inside one call of procesar_ticker: each of the
\* eight facets is requested at most once, in the order of the try block,
\* and a facet that failed is not requested again.
C23_NoRetry ==
    /\ Len(requested) <= Len(Facets)
    /\ \A i \in 1..Len(requested) : requested[i].facet = Facets[i]
    /\ \A i, j \in 1..Len(requested) :
           requested[i].facet = requested[j].facet => i = j
    /\ \A f \in tfailed :
           Cardinality({ i \in 1..Len(requested) : requested[i].facet = f }) = 1

\* C23 witness: the profile and the news failed at the provider, each was
\* requested once, and the call went through its eight requests
C23_Witness ==
    /\ tpc = "done"
    /\ {"profile", "finnhub_news"} \subseteq tfailed
    /\ Len(requested) = Len(Facets)
    /\ Cardinality({ i \in 1..Len(requested) : requested[i].facet = "profile" }) = 1
    /\ bundle["profile"] = NoneVal
    /\ tresult # NoneVal

(***************************************************************************)
(* Claims about financial_api.main and procesar_cliente, read off the      *)
(* record of the run (events)                                              *)
(***************************************************************************)
IndividualSuffix == "_analisis_financiero.md"
ConsolidatedName == "informe_consolidado.md"

\* positions of the calls procesar_ticker(t, u)
Calls(u, t) ==
    { k \in 1..Len(events) : /\ events[k].e = "procesar_ticker"
                             /\ events[k].user = u
                             /\ events[k].ticker = t }

\* positions of the upload attempts of file `archivo` of client u
Uploads(u, archivo) ==
    { k \in 1..Len(events) : /\ events[k].e = "subir_informe_cliente"
                             /\ events[k].user = u
                             /\ events[k].archivo = archivo }

\* positions of the individual reports of client u uploaded with success
IndividualOK(u) ==
    { k \in 1..Len(events) : /\ events[k].e = "subir_informe_cliente"
                             /\ events[k].user = u
                             /\ events[k].archivo # ConsolidatedName
                             /\ events[k].ok }

HandedToProcesarCliente(u) ==
    \E k \in 1..Len(events) : events[k].e = "procesar_cliente" /\ events[k].user = u

ReturnedFrom(u) ==
    \E k \in 1..Len(events) : events[k].e = "return" /\ events[k].user = u

TickersOf(cliente) == Range(get_todos_los_assets(cliente))

VerificationFailed ==
    /\ events # <<>>
    /\ events[1].e = "check_api_status"
    /\ ~events[1].ok

\* the three probes were reported as passed
AllProvidersPassed ==
    /\ events # <<>>
    /\ events[1].e = "check_api_status"
    /\ events[1].av
    /\ events[1].fmp
    /\ events[1].finnhub

ClientWork ==
    {"get_clientes_activos", "get_cliente_por_id", "procesar_cliente",
     "crear_carpeta_cliente", "procesar_ticker", "subir_informe_cliente"}

C4_FailureIsolation ==
    (mode = "all" /\ fpc \in {"done", "fatal"} /\ clientes # <<>>)
        => \A i \in 1..Len(clientes) :
              HasAssets(clientes[i])
                  => /\ HandedToProcesarCliente(clientes[i].user_id)
                     /\ \A t \in TickersOf(clientes[i]) :
                           Calls(clientes[i].user_id, t) # {}

\* the part of C4 the code has: a ticker whose processing failed is
\* followed by the next ticker of the client
C4_TickerIsolated ==
    \E k \in 1..Len(events) :
        /\ events[k].e = "procesar_ticker"
        /\ ~events[k].ok
        /\ \E j \in (k + 1)..Len(events) :
              /\ events[j].e = "procesar_ticker"
              /\ events[j].user = events[k].user

\* C8: a client's tickers are processed as the deduplicated union of its
\* portfolios: each ticker is passed to procesar_ticker at most once and
\* its report is uploaded at most once; once procesar_cliente has returned,
\* each ticker was passed exactly once, and its report was uploaded (once)
\* when procesar_ticker returned one.
C8_EachTickerOnce ==
    \A i \in 1..Len(clientes) :
        LET u == clientes[i].user_id
        IN  \A t \in TickersOf(clientes[i]) :
               /\ Cardinality(Calls(u, t)) <= 1
               /\ Cardinality(Uploads(u, t \o IndividualSuffix)) <= 1
               /\ ReturnedFrom(u) =>
                     /\ Cardinality(Calls(u, t)) = 1
                     /\ \A k \in Calls(u, t) :
                           events[k].ok <=> Uploads(u, t \o IndividualSuffix) # {}

C8_Witness ==
    \E i \in 1..Len(clientes) :
        LET u == clientes[i].user_id
            assets == get_todos_los_assets(clientes[i])
        IN  \E t \in TickersOf(clientes[i]) :
               /\ Cardinality({ j \in 1..Len(assets) : assets[j] = t }) = 2
               /\ Len(clientes[i].portfolios) = 2
               /\ ReturnedFrom(u)
               /\ Cardinality(Uploads(u, t \o IndividualSuffix)) = 1

\* C9: the consolidated report of a client is uploaded (one attempt) if
\* and only if at least one individual report of the client was uploaded
\* with success, and only after every ticker of the client was processed.
C9_ConsolidatedIffSuccess ==
    \A i \in 1..Len(clientes) :
        LET u == clientes[i].user_id
        IN  /\ Cardinality(Uploads(u, ConsolidatedName)) <= 1
            /\ \A k \in Uploads(u, ConsolidatedName) :
                  /\ \E j \in IndividualOK(u) : j < k
                  /\ \A t \in TickersOf(clientes[i]) :
                        \E j \in Calls(u, t) : j < k
            /\ ReturnedFrom(u) =>
                  (Uploads(u, ConsolidatedName) # {} <=> IndividualOK(u) # {})

C9_Witness ==
    \E i \in 1..Len(clientes) :
        LET u == clientes[i].user_id
        IN  /\ ReturnedFrom(u)
            /\ Uploads(u, ConsolidatedName) # {}
            /\ \E t \in TickersOf(clientes[i]) :
                  Uploads(u, t \o IndividualSuffix) \cap IndividualOK(u) = {}

RECURSIVE Ascending(_)
\* the elements of a set of numbers, smallest first
Ascending(S) ==
    IF S = {} THEN <<>>
    ELSE LET m == CHOOSE x \in S : \A y \in S : x <= y
         IN  <<m>> \o Ascending(S \ {m})

TitleLines == 4

RECURSIVE OffsetOf(_, _)
\* where the j-th report starts in a consolidated report made of the title
\* block and the reports R with one delimiter between two of them
OffsetOf(R, j) ==
    IF j = 1 THEN TitleLines
    ELSE OffsetOf(R, j - 1) + Len(R[j - 1]) + 1

\* C10: the consolidated report is the title block followed by the report
\* of every ticker uploaded with success, in the order of processing, with
\* exactly one delimiter between two consecutive reports and none before
\* the first or after the last; the title lists those tickers in that order.
C10_ConsolidatedContent ==
    \A i \in 1..Len(clientes) :
        LET u == clientes[i].user_id
        IN  \A k \in Uploads(u, ConsolidatedName) :
               LET P == Ascending({ j \in IndividualOK(u) : j < k })
                   n == Len(P)
                   R == [j \in 1..n |-> events[P[j]].contenido.chunks]
                   T == [j \in 1..n |-> events[P[j] - 1].ticker]
                   body == events[k].contenido.chunks
               IN  /\ n >= 1
                   /\ Len(body) = OffsetOf(R, n) + Len(R[n])
                   /\ body[3] = "## Portfolio: " \o StrJoin(", ", T) \o "\n"
                   /\ \A j \in 1..n :
                         /\ SubSeq(body, OffsetOf(R, j) + 1, OffsetOf(R, j) + Len(R[j])) = R[j]
                         /\ j < n => body[OffsetOf(R, j) + Len(R[j]) + 1] = Delimiter
                   /\ Cardinality({ p \in 1..Len(body) : body[p] = Delimiter }) = n - 1

C10_Witness ==
    \E i \in 1..Len(clientes) :
        LET u == clientes[i].user_id
        IN  /\ Uploads(u, ConsolidatedName) # {}
            /\ Cardinality(IndividualOK(u)) = 2
            /\ Len(clientes) = 1
            /\ Len(errores) = 1

(***************************************************************************)
(* Claims about the clients loop of financial_api.main                     *)
(***************************************************************************)
\* event k is about client `user`
EventOf(k, user) == "user" \in DOMAIN events[k] /\ events[k].user = user

\* event k is the upload of the report of one ticker
TickerUpload(k) ==
    /\ events[k].e = "subir_informe_cliente"
    /\ events[k].archivo # "informe_consolidado.md"

\* event k is a call of procesar_ticker that left no report saved: no
\* report was built, or its upload (the next event) failed
TickerFailedAt(k) ==
    /\ events[k].e = "procesar_ticker"
    /\ \/ ~events[k].ok
       \/ /\ k < Len(events)
          /\ TickerUpload(k + 1)
          /\ ~events[k + 1].ok

\* the tickers of `user` that failed among the first n events, in order
FailedTickers(user, n) ==
    LET f[m \in 0..n] ==
            IF m = 0 THEN <<>>
            ELSE IF EventOf(m, user) /\ TickerFailedAt(m)
                 THEN Append(f[m - 1], events[m].ticker)
                 ELSE f[m - 1]
    IN  f[n]

\* the number of reports of single tickers of `user` uploaded among the
\* first n events
SavedTickers(user, n) ==
    Cardinality({ m \in 1..n : EventOf(m, user) /\ TickerUpload(m) /\ events[m].ok })

\* the clients loop went through every client
LoopCompleted == mode = "all" /\ clientes # <<>> /\ fpc = "done"

\* C16: over several clients, a ticker whose upload fails is counted in its
\* own client's errores and listed in its tickers_error, the successful
\* tickers of the client are counted in informes_generados, and the
\* statistics and the processing of every other client do not depend on
\* that failure: the statistics of a client are those of its own calls, and
\* every client that has assets is processed.
C16_UploadFailureStaysWithClient ==
    /\ \A k \in 1..Len(events) :
           events[k].e = "return" =>
               LET user == events[k].user
                   stats == events[k].stats
               IN  /\ stats.cliente_id = user
                   /\ stats.tickers_error = FailedTickers(user, k)
                   /\ stats.errores = Len(stats.tickers_error)
                   /\ stats.informes_generados = SavedTickers(user, k)
                   /\ stats.informes_generados + stats.errores = stats.tickers_unicos
    /\ mode = "all" =>
           /\ Len(all_stats) <= Len(clientes)
           /\ \A i \in 1..Len(all_stats) :
                  \E k \in 1..Len(events) :
                      events[k].e = "return" /\ events[k].stats = all_stats[i]
    /\ LoopCompleted =>
           \A i \in 1..Len(clientes) :
               HasAssets(clientes[i]) =>
                   \E j \in 1..Len(all_stats) :
                       /\ all_stats[j].cliente_id = clientes[i].user_id
                       /\ all_stats[j].tickers_unicos =
                              Cardinality(Range(get_todos_los_assets(clientes[i])))

\* C16 witness: the first of two clients had one upload fail and one
\* succeed, the second client had none fail
C16_Witness ==
    /\ LoopCompleted
    /\ Len(all_stats) = 2
    /\ \E k \in 1..Len(events) :
           EventOf(k, UserId(1)) /\ TickerUpload(k) /\ ~events[k].ok
    /\ all_stats[1].cliente_id = UserId(1)
    /\ all_stats[1].errores = 1
    /\ Len(all_stats[1].tickers_error) = 1
    /\ all_stats[1].informes_generados = 1
    /\ all_stats[2].cliente_id = UserId(2)
    /\ all_stats[2].errores = 0
    /\ all_stats[2].informes_generados = all_stats[2].tickers_unicos

\* C18: in the all-clients loop a client with zero tickers is skipped: no
\* ticker is processed and nothing is uploaded for it, it is not counted as
\* an error, and the clients after it are still processed.
C18_ClientWithoutTickersSkipped ==
    mode = "all" =>
        \A i \in 1..Len(clientes) :
            LET cliente == clientes[i]
                without == \A t \in get_todos_los_tickers(cliente) : t = <<>>
            IN  (without /\ cidx > i) =>
                    \* skipped: the only event of the client
                    /\ \A k \in 1..Len(events) :
                           EventOf(k, cliente.user_id) => events[k].e = "skip"
                    /\ \E k \in 1..Len(events) :
                           /\ events[k] = [e |-> "skip", user |-> cliente.user_id]
                           \* the loop goes on with the next client
                           /\ k < Len(events) =>
                                  /\ i < Len(clientes)
                                  /\ EventOf(k + 1, clientes[i + 1].user_id)
                                  /\ events[k + 1].e \in {"skip", "procesar_cliente"}
                    \* not counted
                    /\ \A j \in 1..Len(all_stats) :
                           all_stats[j].cliente_id # cliente.user_id
                    /\ (i < Len(clientes) /\ fpc = "done") =>
                           \E k \in 1..Len(events) :
                               EventOf(k, clientes[i + 1].user_id)

\* C18 witness: the first client had no tickers, the second was processed
\* and is the only one in the statistics
C18_Witness ==
    /\ LoopCompleted
    /\ Len(clientes) = 2
    /\ get_todos_los_assets(clientes[1]) = <<>>
    /\ events[3] = [e |-> "skip", user |-> UserId(1)]
    /\ Len(all_stats) = 1
    /\ all_stats[1].cliente_id = UserId(2)
    /\ all_stats[1].informes_generados >= 1

\* the events strictly between k1 and k2 that are pauses of s seconds
Pauses(k1, k2, s) ==
    { m \in (k1 + 1)..(k2 - 1) : events[m] = [e |-> "sleep", s |-> s] }

\* k1 < k2 are two events of kinds e1, e2 with no event of kind e1 or e2
\* between them
Consecutive(k1, e1, k2, e2) ==
    /\ k1 < k2
    /\ events[k1].e = e1
    /\ events[k2].e = e2
    /\ \A m \in (k1 + 1)..(k2 - 1) : events[m].e \notin {e1, e2}

\* C24: between the processing of two consecutive tickers of a client the
\* inter-ticker delay (15 s) elapses, between two consecutively processed
\* clients the longer inter-client delay (30 s), and no inter-ticker delay
\* follows the last ticker of a client.
C24_RateLimitDelays ==
    /\ PausaTickers = 15
    /\ PausaClientes = 30
    /\ \A k1, k2 \in 1..Len(events) :
           /\ (/\ Consecutive(k1, "procesar_ticker", k2, "procesar_ticker")
               /\ events[k1].user = events[k2].user)
                  => Cardinality(Pauses(k1, k2, PausaTickers)) = 1
           /\ Consecutive(k1, "return", k2, "procesar_cliente")
                  => /\ Cardinality(Pauses(k1, k2, PausaClientes)) = 1
                     /\ Pauses(k1, k2, PausaTickers) = {}
           /\ Consecutive(k1, "procesar_ticker", k2, "return")
                  => Pauses(k1, k2, PausaTickers) = {}

\* C24 witness: two clients were processed, the first with two tickers:
\* one pause of 15 s between its tickers, one of 30 s before the second
\* client, none after the last client
C24_Witness ==
    /\ LoopCompleted
    /\ Len(all_stats) = 2
    /\ all_stats[1].tickers_unicos = 2
    /\ \E k1, k2, k3, k4 \in 1..Len(events) :
           /\ Consecutive(k1, "procesar_ticker", k2, "procesar_ticker")
           /\ Pauses(k1, k2, PausaTickers) # {}
           /\ Consecutive(k2, "procesar_ticker", k3, "return")
           /\ Consecutive(k3, "return", k4, "procesar_cliente")
           /\ Pauses(k3, k4, PausaClientes) # {}
    /\ events[Len(events)].e = "return"

\* the raw tickers of `user` handed to procesar_ticker among the first n
\* events
ProcessedTickers(user, n) ==
    { events[m].ticker : m \in { x \in 1..n : EventOf(x, user) /\ events[x].e = "procesar_ticker" } }

\* the tickers of `user` whose report was generated and whose upload
\* returned success among the first n events
UploadedTickers(user, n) ==
    { events[m].ticker :
        m \in { x \in 1..(n - 1) :
                  /\ EventOf(x, user)
                  /\ events[x].e = "procesar_ticker"
                  /\ events[x].ok
                  /\ EventOf(x + 1, user)
                  /\ TickerUpload(x + 1)
                  /\ events[x + 1].archivo = events[x].ticker \o "_analisis_financiero.md"
                  /\ events[x + 1].ok } }

\* C26: bookkeeping of procesar_cliente: in what it returns,
\* informes_generados + errores = tickers_unicos; every ticker of the client
\* is among the uploaded reports or in tickers_error, never in both; a
\* ticker counts as a success only if its report was generated and its
\* upload returned success.
C26_BookkeepingConservation ==
    \A k \in 1..Len(events) :
        events[k].e = "return" =>
            LET user == events[k].user
                stats == events[k].stats
                uploaded == UploadedTickers(user, k)
                failed == Range(stats.tickers_error)
            IN  /\ stats.informes_generados + stats.errores = stats.tickers_unicos
                /\ stats.informes_generados = Cardinality(uploaded)
                /\ stats.errores = Cardinality(failed)
                /\ uploaded \cap failed = {}
                /\ uploaded \cup failed = ProcessedTickers(user, k)
                /\ \A i \in 1..Len(clientes) :
                       clientes[i].user_id = user =>
                           uploaded \cup failed = Range(get_todos_los_assets(clientes[i]))

\* C26 witness: a client with two tickers; no report could be generated for
\* one, the report of the other was uploaded
C26_Witness ==
    \E k \in 1..Len(events) :
        /\ events[k].e = "return"
        /\ events[k].stats.tickers_unicos = 2
        /\ events[k].stats.informes_generados = 1
        /\ events[k].stats.errores = 1
        /\ \E m \in 1..k :
               /\ EventOf(m, events[k].user)
               /\ events[m].e = "procesar_ticker"
               /\ ~events[m].ok
               /\ events[k].stats.tickers_error = <<events[m].ticker>>

\* the path an upload event writes to (StorageManager._get_ruta_cliente)
RutaRemota(k) == events[k].user \o "/" \o events[k].archivo

\* C27: deduplication and file naming use the raw ticker: two distinct raw
\* tickers of a client with the same normalized symbol ('NVD.F', 'NVDA.F')
\* are each processed and uploaded, as '{raw ticker}_analisis_financiero.md',
\* and no two individual reports of a run are written to the same path.
C27_RawTickerNaming ==
    \* a report is named after the raw ticker and written for the normalized
    /\ \A k \in 1..Len(events) :
           TickerUpload(k) =>
               /\ events[k - 1].e = "procesar_ticker"
               /\ events[k - 1].user = events[k].user
               /\ events[k].archivo = events[k - 1].ticker \o "_analisis_financiero.md"
               /\ events[k].contenido.chunks[1] =
                      "# Analisis Financiero de "
                          \o normalizar_ticker(events[k - 1].ticker) \o "\n\n"
    \* no path is written twice
    /\ \A k1, k2 \in 1..Len(events) :
           (TickerUpload(k1) /\ TickerUpload(k2) /\ k1 # k2) =>
               RutaRemota(k1) # RutaRemota(k2)
    \* the raw tickers with one normalized symbol are all processed
    /\ \A k \in 1..Len(events) :
           events[k].e = "return" =>
               \A i \in 1..Len(clientes) :
                   clientes[i].user_id = events[k].user =>
                       /\ ProcessedTickers(events[k].user, k) =
                              Range(get_todos_los_assets(clientes[i]))
                       /\ events[k].stats.tickers_unicos =
                              Cardinality(Range(get_todos_los_assets(clientes[i])))

\* C27 witness: 'NVD.F' and 'NVDA.F', both NVDA once normalized, were
\* uploaded for one client under their two names
C27_Witness ==
    \E k1, k2 \in 1..Len(events) :
        /\ TickerUpload(k1)
        /\ TickerUpload(k2)
        /\ events[k1].user = events[k2].user
        /\ events[k1].archivo = "NVD.F_analisis_financiero.md"
        /\ events[k2].archivo = "NVDA.F_analisis_financiero.md"
        /\ events[k1].ok
        /\ events[k2].ok
        /\ events[k1].contenido.chunks[1] = events[k2].contenido.chunks[1]
        /\ normalizar_ticker("NVD.F") = normalizar_ticker("NVDA.F")
        /\ fpc = "done"

(***************************************************************************)
(* Claims about api_youtube.main                                           *)
(***************************************************************************)
\* an external call has been made: a directory read, a video search, an
\* analysis or an upload
ExternalCallMade == vevents # <<>> \/ searches # <<>> \/ ypc # "idle"

\* C17: when a required configuration key is missing the run aborts before
\* any provider call (no video search, no analysis, no directory read, no
\* upload); the configuration check precedes every external call.
C17_ConfigurationFailFast ==
    /\ missing # {} => vpc = "import_error" /\ ~ExternalCallMade
    /\ ExternalCallMade =>
           /\ config # NoneVal
           /\ validate_configuration(config)
           /\ vpc \notin {"import", "validate", "import_error", "exit_1"}

\* C17 witness: SUPABASE_URL was missing, the import of config failed and
\* nothing else happened
C17_Witness ==
    /\ vpc = "import_error"
    /\ missing = {"SUPABASE_URL"}
    /\ config = NoneVal
    /\ ~ExternalCallMade

\* the exception classes of a transport/HTTP error or a malformed response
SearchFailed(response) == response.kind \in {"http_error", "exception", "malformed"}

\* the next non-empty query after query i, 0 if there is none
NextQuery(i) ==
    IF \E j \in (i + 1)..Len(consultas) : ~Falsy(consultas[j])
    THEN CHOOSE j \in (i + 1)..Len(consultas) :
             /\ ~Falsy(consultas[j])
             /\ \A m \in (i + 1)..(j - 1) : Falsy(consultas[m])
    ELSE 0

\* C15: a transport/HTTP error or a malformed response during the search
\* for one query is NotFound for that query only: the search returns None
\* without raising, buscar_video_reciente_con_fallback goes on to the next
\* query, and the run of api_youtube.main is not aborted.
C15_SearchFailureIsNotFound ==
    \* inside buscar_video_reciente_con_fallback
    /\ \A k \in 1..Len(searches) :
           SearchFailed(provider[searches[k]]) =>
               /\ SearchReturnedNone(k)
               /\ (ypc = "done" /\ NextQuery(searches[k]) # 0) =>
                      /\ k < Len(searches)
                      /\ searches[k + 1] = NextQuery(searches[k])
    \* the direct search of main
    /\ \A k \in 1..Len(vevents) :
           (vevents[k].e = "search" /\ vevents[k].failed) =>
               /\ vevents[k].url = None
               /\ k = Len(vevents) => vpc = "weekday"
    \* main ends abnormally only when the directory could not be read
    /\ vpc # "exit_1"
    /\ vpc = "crashed" =>
           vevents[Len(vevents)] = [e |-> "get_clientes_activos", ok |-> FALSE]

\* C15 witness: the pre-market search failed, the run went on to the weekly
\* block, where the first query failed and the second found a video
C15_Witness ==
    /\ vpc = "weekly"
    /\ \E k \in 1..Len(vevents) : vevents[k].e = "search" /\ vevents[k].failed
    /\ ypc = "done"
    /\ searches = <<1, 2>>
    /\ provider[1].kind = "exception"
    /\ yresult = VideoUrl("v2")
    /\ ynotice

\* the events of kind `kind` of the run
EventsOfKind(kind) == { k \in 1..Len(vevents) : vevents[k].e = kind }

\* the run went through the weekday test and `weekday` is what it saw
WeekdaySeen(weekday) ==
    \E k \in EventsOfKind("weekday") : vevents[k].weekday = weekday

\* the weekly block was entered: its first statement inside the loop is
\* esperar_intervalo
WeeklyBlockEntered == vpc = "weekly" \/ EventsOfKind("esperar_intervalo") # {}

\* the pre-market video was not found, or its analysis failed
PremercadoFailed ==
    \/ \E k \in EventsOfKind("search") : Falsy(vevents[k].url)
    \* (the analysis of the pre-market video is the third call of the run)
    \/ \E k \in EventsOfKind("analizar_video") :
           /\ k = 3
           /\ Falsy(vevents[k].analisis)

\* C28: in api_youtube.main the weekly block is entered if and only if the
\* weekday is Monday (0) or Friday (4), whatever the outcome of the daily
\* pre-market step: a pre-market video not found or not analysed neither
\* ends the run nor skips the weekly block.
C28_WeeklyBlockOnMondayAndFriday ==
    \* the pre-market step always leads to the weekday test
    /\ EventsOfKind("search") # {} => vpc \in {"weekday", "weekly", "done"}
    /\ vpc \in {"weekly", "done"} => Cardinality(EventsOfKind("weekday")) = 1
    \* the weekday alone decides
    /\ \A weekday \in Weekdays :
           WeekdaySeen(weekday) =>
               /\ WeeklyBlockEntered <=> weekday \in {0, 4}
               /\ (vpc = "done" /\ weekday \in {0, 4}) =>
                      Cardinality(EventsOfKind("fallback")) = Len(configuraciones_semana)
               /\ weekday \notin {0, 4} => vpc = "done"

\* C28 witness: on a Friday the pre-market video was not found, and the
\* weekly block ran for its two videos
C28_Witness ==
    /\ vpc = "done"
    /\ vevents[2].e = "search"
    /\ Falsy(vevents[2].url)
    /\ vevents[3] = [e |-> "weekday", weekday |-> 4]
    /\ Cardinality(EventsOfKind("fallback")) = 2
    /\ PremercadoFailed

\* the number of places of s where sub begins
CountSub(s, sub) ==
    Cardinality({ i \in 1..(Len(s) - Len(sub) + 1) : SubSeq(s, i, i + Len(sub) - 1) = sub })

\* the weekly video number j of the configuration was found and analysed
WeeklySuccess(j) ==
    \E k \in EventsOfKind("fallback") :
        /\ vevents[k].titulo = configuraciones_semana[j].titulo
        /\ ~Falsy(vevents[k].url)
        /\ k < Len(vevents)
        /\ vevents[k + 1].e = "analizar_video"
        /\ vevents[k + 1].url = vevents[k].url
        /\ ~Falsy(vevents[k + 1].analisis)

WeeklySuccesses == { j \in 1..Len(configuraciones_semana) : WeeklySuccess(j) }

\* the uploads of the weekly report attempted so far
VisionUploads ==
    { k \in EventsOfKind("subir_texto") : vevents[k].archivo = ARCHIVO_VISION_MERCADO }

SectionHeading(j) == "## " \o configuraciones_semana[j].titulo \o "\n"

\* C29: the weekly report 'vision de mercado.md' is uploaded (to every
\* client) if and only if at least one of the two weekly videos was found
\* and analysed; it holds one section per successful analysis, in
\* configuration order, one '---' delimiter between two consecutive
\* sections and none after the last; a video not found or not analysed
\* contributes no section and does not stop the other.
C29_WeeklyReport ==
    \* nothing is uploaded before the end of the block
    /\ vpc # "done" => VisionUploads = {}
    /\ (vpc = "done" /\ WeeklyBlockEntered) =>
           \* both videos were looked for
           /\ Cardinality(EventsOfKind("fallback")) = Len(configuraciones_semana)
           \* one upload per client, if and only if an analysis succeeded
           /\ \A i \in 1..Len(vclientes) :
                  Cardinality({ k \in VisionUploads : vevents[k].cliente = UserId(i) })
                      = (IF WeeklySuccesses # {} THEN 1 ELSE 0)
           /\ Cardinality(VisionUploads) =
                  (IF WeeklySuccesses # {} THEN Len(vclientes) ELSE 0)
    /\ \A k \in VisionUploads :
           LET informe == vevents[k].contenido
               n == Cardinality(WeeklySuccesses)
           IN  /\ n >= 1
               /\ StartsWith(informe, "# Informe Vision de Mercado\n\n## ")
               /\ CountSub(informe, "\n## ") = n
               /\ CountSub(informe, "\n---\n") = n - 1
               /\ CountSub(informe, "---") = n - 1
               /\ ~EndsWith(informe, "---")
               /\ \A j \in 1..Len(configuraciones_semana) :
                      Contains(informe, SectionHeading(j)) <=> WeeklySuccess(j)
               /\ n = 2 =>
                      /\ StartsWith(informe,
                                    "# Informe Vision de Mercado\n\n" \o SectionHeading(1))
                      /\ Contains(informe, "\n\n---\n\n" \o SectionHeading(2))

\* C29 witness: the first weekly video was not found, the second was found
\* and analysed; the report has the section of the second alone and no
\* delimiter
C29_Witness ==
    /\ vpc = "done"
    /\ WeeklySuccesses = {2}
    /\ \E k \in EventsOfKind("fallback") :
           vevents[k].titulo = VISION_SEMANAL_QUERY /\ Falsy(vevents[k].url)
    /\ VisionUploads # {}
    /\ \A k \in VisionUploads :
           /\ Contains(vevents[k].contenido, SectionHeading(2))
           /\ ~Contains(vevents[k].contenido, "---")

\* the uploads of the file `archivo` attempted so far, in order
UploadsOf(archivo) ==
    SelectSeq(vevents, LAMBDA ev : ev.e = "subir_texto" /\ ev.archivo = archivo)

\* subir_informe_para_clientes was called for the file `archivo`: by the
\* pre-market step once its video was analysed, by the weekly block at its
\* end once one of its videos was analysed
UploadCalled(archivo) ==
    IF archivo = ARCHIVO_PREMERCADO
    THEN \E k \in EventsOfKind("analizar_video") : k = 3 /\ ~Falsy(vevents[k].analisis)
    ELSE vpc = "done" /\ WeeklySuccesses # {}

\* C30: a call of subir_informe_para_clientes attempts the upload exactly
\* once for every client of the list, in list order, also after an upload
\* that failed; exitosos + fallidos is the number of clients; with an empty
\* list no upload is attempted.
C30_OneUploadPerClient ==
    \A archivo \in {ARCHIVO_PREMERCADO, ARCHIVO_VISION_MERCADO} :
        LET uploads == UploadsOf(archivo)
        IN  /\ Len(uploads) = (IF UploadCalled(archivo) THEN Len(vclientes) ELSE 0)
            /\ \A i \in 1..Len(uploads) :
                   /\ uploads[i].cliente = UserId(i)
                   /\ uploads[i].exito = vclientes[i]
            /\ UploadCalled(archivo) =>
                   /\ Exitosos(uploads) + Fallidos(uploads) = Len(vclientes)
                   /\ Fallidos(uploads) =
                          Cardinality({ i \in 1..Len(vclientes) : ~vclientes[i] })
            /\ vclientes = <<>> => uploads = <<>>

\* C30 witness: the pre-market report is uploaded for two clients; the upload
\* of the first fails and the upload of the second is attempted all the same
C30_Witness ==
    LET uploads == UploadsOf(ARCHIVO_PREMERCADO)
    IN  /\ UploadCalled(ARCHIVO_PREMERCADO)
        /\ Len(vclientes) = 2
        /\ Len(uploads) = 2
        /\ ~uploads[1].exito
        /\ uploads[2].cliente = UserId(2)
        /\ uploads[2].exito

(***************************************************************************)
(* Claims about orchestrator.main                                          *)
(***************************************************************************)
\* the orchestrator has ended
OrchEnded == opc \in {"exited", "crashed"}

\* C25: the orchestrator runs api_youtube then financial_api, runs the
\* second step even when the first returned a non-zero code, timed out or
\* could not be started (each a return code 1), and exits with status 0 if
\* and only if every step returned 0.
C25_BothStepsRun ==
    /\ \A k \in 1..Len(ran) :
           /\ k <= Len(steps)
           /\ ran[k].step = steps[k]
           /\ ran[k].how \in {"timeout", "not_started"} => ran[k].code = 1
    /\ OrchEnded =>
           /\ Len(ran) = Len(steps)
           /\ exit_status = 0 <=> \A k \in 1..Len(ran) : ran[k].code = 0

\* the case of C25 that the code handles: the logs could be written, the
\* first step timed out, the second ran and returned 0, the exit status
\* is 1
C25_SecondStepAfterTimeout ==
    /\ opc = "exited"
    /\ Len(ran) = 2
    /\ ran[1] = [step |-> "api_youtube", how |-> "timeout", code |-> 1,
                 err |-> "Timeout: api_youtube.py tardo mas de 5 minutos en ejecutarse"]
    /\ ran[2].step = "financial_api"
    /\ ran[2].code = 0
    /\ log_file # ""
    /\ exit_status = 1

=============================================================================
